---------------------------- MODULE Spec2Model ----------------------------
(***************************************************************************)
(* DisplayX virtual display driver (tSoniq/displayx).                      *)
(*                                                                         *)
(* A state-machine model of the kernel side of the driver: the shared      *)
(* structures of DisplayXFBShared.h (DisplayXFBMode, DisplayXFBState,      *)
(* DisplayXFBConfiguration), the per-display DisplayXFBFramebuffer, the    *)
(* DisplayXFBDriver session table and the DisplayXFBUserClient protocol    *)
(* methods that route a client call to a framebuffer.                      *)
(*                                                                         *)
(* Conventions.                                                            *)
(*  - uint32_t fields are held as integers below 2^31; the products and    *)
(*    sums the driver computes in unsigned 32-bit arithmetic are computed  *)
(*    modulo 2^32 on pairs <<high 16 bits, low 16 bits>> (MulW, AddW).     *)
(*  - ~kMagic, the value invalidate() stores, is held as its signed        *)
(*    32-bit reading -kMagic-1.                                            *)
(*  - `last' records the most recent call: what was called, with what,     *)
(*    what it returned and signalled, and the display as it was before.    *)
(*  - `hist' holds history counters that the driver does not keep.         *)
(***************************************************************************)
EXTENDS Integers, Sequences, FiniteSets, TLC

---------------------------------------------------------------------------
(* Program constants (DisplayXFBShared.h, DisplayXFBFramebuffer.h).        *)

kDisplayXFBMaxDisplays == 4
kDisplayXFBMaxClients == 8
kDisplayXFBMinWidth == 320
kDisplayXFBMinHeight == 200
kDisplayXFBDefaultWidth == 1280
kDisplayXFBDefaultHeight == 800
kDisplayXFBMaxWidth == 8192
kDisplayXFBMaxHeight == 8192
kDisplayXFBWidthQuantise == 8
kDisplayXFBMinRefresh1616 == 65536
kDisplayXFBMaxRefresh1616 == 8388608
kDisplayXFBMinVRAMSize == 8388608
kDisplayXFBDefaultVRAMSize == 33554432
kDisplayXFBMapTypeDisplay == 0
kDisplayXFBMapTypeCursor == 1
kDisplayXFBMaxMapTypes == 2

kModeDefaultWidth == 1280
kModeDefaultHeight == 900

kStateMagic == 2017870438
kFlagConnected == 1

kConfigurationMagic == 2017870435
kMaxModes == 32
kDefaultRefresh == 3932160
kDefaultRowPadding == 0
kDefaultFramePadding == 1024
kNameSize == 16

(* DisplayXFBCursor.                                                       *)
kCursorMagic == 1128481350
kCursorMaxWidth == 128
kCursorMaxHeight == 128

kFramePadding == 1024

(* The display count and VRAM size the driver reads from its property list *)
(* at init(): the count defaults to 1.                                     *)
m_displayCount == 1
VRAMSizes == {kDisplayXFBMinVRAMSize, kDisplayXFBDefaultVRAMSize}

(* IOReturn codes.                                                         *)
kIOReturnSuccess == "kIOReturnSuccess"
kIOReturnError == "kIOReturnError"
kIOReturnBadArgument == "kIOReturnBadArgument"
kIOReturnNotAttached == "kIOReturnNotAttached"
kIOReturnNotOpen == "kIOReturnNotOpen"
kIOReturnNotFound == "kIOReturnNotFound"
kIOReturnBusy == "kIOReturnBusy"
kIOReturnNoMemory == "kIOReturnNoMemory"
kIOReturnUnsupported == "kIOReturnUnsupported"
kIOReturnNotPermitted == "kIOReturnNotPermitted"
kIOReturnUnsupportedMode == "kIOReturnUnsupportedMode"
kIOReturnOffline == "kIOReturnOffline"

(* Notification codes and interrupt types.                                 *)
kDisplayXFBNotificationDisplayState == "DisplayState"
kDisplayXFBNotificationCursorState == "CursorState"
kDisplayXFBNotificationCursorImage == "CursorImage"
kIOFBConnectInterruptType == "connect"
kIOFBVBLInterruptType == "vblank"

---------------------------------------------------------------------------
(* Bounds of the model.                                                    *)

NumClients == 1        \* user clients that exist
MaxEvents == 2         \* connect/disconnect signals counted in hist
MaxPoolCalls == 3      \* calls made on the session pool

Clients == 1 .. NumClients
NoClient == 0
Displays == 0 .. (m_displayCount - 1)
DisplayIndexArgs == 0 .. m_displayCount

---------------------------------------------------------------------------
(* Unsigned 32-bit arithmetic on <<high, low>> pairs of 16-bit halves.     *)

ToW(x) == <<(x \div 65536) % 65536, x % 65536>>

AddW(a, b) ==
    LET lo == a[2] + b[2]
    IN  <<(a[1] + b[1] + (lo \div 65536)) % 65536, lo % 65536>>

(* The full product of two 16-bit halves.                                  *)
Mul16W(x, y) ==
    LET p1 == (x \div 256) * y
        p0 == (x % 256) * y
    IN  AddW(<<(p1 \div 256) % 65536, (p1 % 256) * 256>>, ToW(p0))

MulW(a, b) ==
    LET ll == Mul16W(a[2], b[2])
        cross == (Mul16W(a[1], b[2])[2] + Mul16W(a[2], b[1])[2]) % 65536
    IN  <<(ll[1] + cross) % 65536, ll[2]>>

GtW(a, b) == a[1] > b[1] \/ (a[1] = b[1] /\ a[2] > b[2])

(* ~value of a 32-bit magic, as a signed integer.                          *)
BitNot32(k) == 0 - k - 1

---------------------------------------------------------------------------
(* DisplayXFBMode.                                                         *)

(* A defective variant of setWidth: no rounding.                           *)
SetWidthUnrounded(w) ==
    IF w < kDisplayXFBMinWidth THEN kDisplayXFBMinWidth
    ELSE IF w > kDisplayXFBMaxWidth THEN kDisplayXFBMaxWidth
    ELSE w

SetWidth(w) ==
    LET q == w - (w % kDisplayXFBWidthQuantise)
    IN  IF q < kDisplayXFBMinWidth THEN kDisplayXFBMinWidth
        ELSE IF q > kDisplayXFBMaxWidth THEN kDisplayXFBMaxWidth
        ELSE q

SetHeight(h) ==
    IF h < kDisplayXFBMinHeight THEN kDisplayXFBMinHeight
    ELSE IF h > kDisplayXFBMaxHeight THEN kDisplayXFBMaxHeight
    ELSE h

ModeInitialise(w, h) == [m_width |-> SetWidth(w), m_height |-> SetHeight(h)]

ModeDefault == ModeInitialise(kModeDefaultWidth, kModeDefaultHeight)

(* A mode whose fields the client wrote directly, without the setters.     *)
RawMode(w, h) == [m_width |-> w, m_height |-> h]

---------------------------------------------------------------------------
(* DisplayXFBState.                                                        *)

(* initialise() and invalidate() assign every field but m_modeIndex.       *)
StateInitialise(state, m, off, pd) ==
    [state EXCEPT !.m_magic = kStateMagic, !.m_offset = off, !.m_pad = pd,
                  !.m_flags = 0, !.m_mode = m]

StateInvalidate(state) ==
    [state EXCEPT !.m_magic = BitNot32(kStateMagic), !.m_offset = 0, !.m_pad = 0,
                  !.m_flags = 0, !.m_mode = ModeDefault]

(* Storage as the allocator hands it out (zero-filled), then the           *)
(* constructor DisplayXFBState() { invalidate(); }.                        *)
StateConstruct ==
    StateInvalidate([m_magic |-> 0, m_offset |-> 0, m_pad |-> 0, m_flags |-> 0,
                     m_modeIndex |-> 0, m_mode |-> RawMode(0, 0)])

StateIsValid(state) == state.m_magic = kStateMagic

IsConnected(state) == (state.m_flags % 2) = kFlagConnected

SetIsConnected(state, con) ==
    [state EXCEPT !.m_flags =
        IF con THEN (IF (@ % 2) = 1 THEN @ ELSE @ + kFlagConnected)
               ELSE (IF (@ % 2) = 1 THEN @ - kFlagConnected ELSE @)]

StateSetMode(state, m, mi) == [state EXCEPT !.m_modeIndex = mi, !.m_mode = m]

BytesPerPixel == 4

(* pad() + bytesPerPixel()*width(), in unsigned arithmetic.                *)
BytesPerRow(state) ==
    AddW(ToW(state.m_pad), MulW(ToW(BytesPerPixel), ToW(state.m_mode.m_width)))

BytesPerFrame(state) == MulW(BytesPerRow(state), ToW(state.m_mode.m_height))

---------------------------------------------------------------------------
(* DisplayXFBConfiguration.                                                *)

(* setName(): copy up to 15 characters, then zero-fill.                    *)
SetName(initName) ==
    [i \in 0 .. (kNameSize - 1) |->
        IF i < kNameSize - 1 /\ i < Len(initName) THEN initName[i + 1] ELSE 0]

ConfigInitialise(n) ==
    [m_magic |-> kConfigurationMagic,
     m_defaultModeIndex |-> 0,
     m_modeCount |-> 0,
     m_refreshRate |-> kDefaultRefresh,
     m_rowPadding |-> kDefaultRowPadding,
     m_framePadding |-> kDefaultFramePadding,
     m_name |-> SetName(n),
     m_modes |-> [i \in 0 .. (kMaxModes - 1) |-> ModeDefault]]

ConfigInvalidate == [ConfigInitialise(<<>>) EXCEPT !.m_magic = BitNot32(kConfigurationMagic)]

ConfigIsValid(c) ==
    /\ c.m_magic = kConfigurationMagic
    /\ c.m_refreshRate >= kDisplayXFBMinRefresh1616
    /\ c.m_refreshRate <= kDisplayXFBMaxRefresh1616
    /\ c.m_modeCount <= kMaxModes
    /\ c.m_defaultModeIndex < kMaxModes
    /\ c.m_name[kNameSize - 1] = 0

ModeCount(c) == IF ConfigIsValid(c) THEN c.m_modeCount ELSE 0

(* appendMode(w, h, setAsDefault): the configuration after the call.       *)
AppendMode(c, w, h, setAsDefault) ==
    LET index == c.m_modeCount
    IN  IF index >= kMaxModes THEN c
        ELSE [c EXCEPT !.m_modeCount = index + 1,
                       !.m_defaultModeIndex = IF setAsDefault THEN index ELSE @,
                       !.m_modes[index] = ModeInitialise(w, h)]

DefaultModeIndex(c) == IF c.m_defaultModeIndex < kMaxModes THEN c.m_defaultModeIndex ELSE 0

Mode(c, index) == IF index < kMaxModes THEN c.m_modes[index] ELSE c.m_modes[kMaxModes - 1]

DefaultMode(c) == c.m_modes[DefaultModeIndex(c)]

(* refreshPeriodUS(): (uint32_t)(65536000000ull / m_refreshRate), by long  *)
(* division of 1000000 * 2^16 in two 8-bit steps.                          *)
RefreshPeriodUS(c) ==
    LET r == c.m_refreshRate
        q0 == 1000000 \div r
        r0 == 1000000 % r
        q1 == q0 * 256 + ((r0 * 256) \div r)
        r1 == (r0 * 256) % r
    IN  q1 * 256 + ((r1 * 256) \div r)

(* A defective variant of makeState: the row padding left out.             *)
MakeStateUnpadded(c, state, modeIndex, offset) ==
    IF modeIndex < ModeCount(c)
    THEN StateInitialise(state, Mode(c, modeIndex), offset, 0)
    ELSE StateInvalidate(state)

(* makeState(state, modeIndex, offset): the state written.                 *)
MakeState(c, state, modeIndex, offset) ==
    IF modeIndex < ModeCount(c)
    THEN StateInitialise(state, Mode(c, modeIndex), offset, c.m_rowPadding)
    ELSE StateInvalidate(state)

(* makeState(state, modeIndex, offset): the value returned.                *)
MakeStateReturn(c, state, modeIndex, offset) ==
    StateIsValid(MakeState(c, state, modeIndex, offset))

---------------------------------------------------------------------------
(* InterruptHandler (DisplayXFBFramebuffer.h). m_handler is TRUE when a    *)
(* callback is assigned.                                                   *)

HandlerInit == [m_handler |-> FALSE, m_enabled |-> FALSE]

HandlerAssign(h) == [m_handler |-> TRUE, m_enabled |-> TRUE]

HandlerSetEnabled(h, enable) == [h EXCEPT !.m_enabled = enable]

(* fire(): the number of calls of the registered callback.                 *)
HandlerFire(h) == IF h.m_handler /\ h.m_enabled THEN 1 ELSE 0

---------------------------------------------------------------------------
(* DisplayXFBTiming. The conversion between nanoseconds and absolute time  *)
(* units is that of the uptime clock: one unit is one nanosecond.          *)

NanosecondsToAbsolutetime(ns) == ns

TimingConstruct == [m_period |-> 0, m_nextTick |-> 0]

TimingStart(period, now) ==
    LET p == NanosecondsToAbsolutetime(period * 1000)
    IN  [m_period |-> p, m_nextTick |-> now + p]

AbsolutetimeToNanoseconds(abstime) == abstime

(* A defective variant of update: one tick for every poll that has passed  *)
(* the tick time.                                                          *)
TimingUpdateOneTick(t, now) ==
    LET next == IF now >= t.m_nextTick
                THEN IF t.m_period # 0 THEN t.m_nextTick + t.m_period ELSE now
                ELSE IF (t.m_nextTick - now) > t.m_period THEN now + 1 ELSE t.m_nextTick
    IN  [timing |-> [t EXCEPT !.m_nextTick = next],
         ticks |-> IF now >= t.m_nextTick /\ t.m_period # 0 THEN 1 ELSE 0,
         timeToNextTick |-> AbsolutetimeToNanoseconds(next - now) \div 1000]

(* update(ticks, timeToNextTick) with clock_get_uptime() returning now.    *)
(* m_nextTick - now is at most the period (a uint32_t of microseconds) or  *)
(* one unit when it is converted, so the uint32_t cast loses nothing.      *)
TimingUpdate(t, now) ==
    LET ticks == IF now >= t.m_nextTick /\ t.m_period # 0
                 THEN ((now - t.m_nextTick) \div t.m_period) + 1
                 ELSE 0
        next == IF now >= t.m_nextTick
                THEN IF t.m_period # 0 THEN t.m_nextTick + (t.m_period * ticks) ELSE now
                ELSE IF (t.m_nextTick - now) > t.m_period THEN now + 1 ELSE t.m_nextTick
    IN  [timing |-> [t EXCEPT !.m_nextTick = next],
         ticks |-> ticks,
         timeToNextTick |-> AbsolutetimeToNanoseconds(next - now) \div 1000]

---------------------------------------------------------------------------
(* DisplayXFBCursor, without its pixel data.                               *)
CursorInitialise ==
    [m_magic |-> kCursorMagic, m_isValid |-> 0, m_isVisible |-> 0, m_x |-> 0, m_y |-> 0,
     m_width |-> 0, m_height |-> 0, m_hotspotX |-> 0, m_hotspotY |-> 0,
     m_sequenceState |-> 0, m_sequencePixel |-> 0]

(* m_cursor = 0.                                                           *)
NoCursor == [m_magic |-> 0]

---------------------------------------------------------------------------
(* DisplayXFBFramebuffer: one record per display.                          *)
(*   nub                       the driver holds a started framebuffer here *)
(*   m_vblankTimerEventSource  present: the work loop and the timer source *)
(*                             were created; armed/timeoutUS: the pending  *)
(*                             timeout, which expires at deadline (ns);    *)
(*                             timeout                                     *)

(* sizeof (DisplayXFBCursor): eleven fields, five reserved words and the   *)
(* pixel data, four bytes each.                                            *)
SizeofCursor == (11 + 5 + (kCursorMaxWidth * kCursorMaxHeight)) * 4

(* An IOBufferMemoryDescriptor pointer: null, or a buffer of a length.     *)
NoDescriptor == [allocated |-> FALSE, length |-> 0]

SharedMemoryAlloc(size) == [allocated |-> TRUE, length |-> size]

(* An IOMemoryMap pointer: null, or a mapping in the client's task.        *)
NoMap == [address |-> 0, length |-> 0, readOnly |-> FALSE]

(* start(): the members as the "constructor" sets them, then the default   *)
(* configuration and its state.                                            *)
FramebufferStart(index, vram, timerPresent) ==
    LET c0 == AppendMode(ConfigInitialise(<<68, 101, 102, 97, 117, 108, 116>>),
                         kDisplayXFBDefaultWidth, kDisplayXFBDefaultHeight, TRUE)
    IN  [nub |-> TRUE,
         m_displayIndex |-> index,
         m_vramSize |-> vram,
         m_vblankTimerEventSource |->
             [present |-> timerPresent, armed |-> FALSE, timeoutUS |-> 0, deadline |-> 0],
         m_vblankPeriodUS |-> 0,
         m_vblankTiming |-> TimingConstruct,
         m_vblankTimerIsEnabled |-> FALSE,
         m_connectInterruptHandler |-> HandlerInit,
         m_vblankInterruptHandler |-> HandlerInit,
         m_displayMemory |-> NoDescriptor,
         m_cursorMemory |-> NoDescriptor,
         m_cursor |-> NoCursor,
         m_configuration |-> c0,
         m_state |-> MakeState(c0, StateInvalidate(StateConstruct), DefaultModeIndex(c0), 0)]

(* enableController(): the display memory, then the cursor memory; both    *)
(* are freed if either allocation fails.                                   *)
FramebufferEnableController(fb, displayOk, cursorOk) ==
    IF displayOk /\ cursorOk
    THEN [fb |-> [fb EXCEPT !.m_displayMemory = SharedMemoryAlloc(fb.m_vramSize),
                            !.m_cursorMemory = SharedMemoryAlloc(SizeofCursor),
                            !.m_cursor = CursorInitialise],
          status |-> kIOReturnSuccess]
    ELSE [fb |-> [fb EXCEPT !.m_displayMemory = NoDescriptor, !.m_cursorMemory = NoDescriptor],
          status |-> kIOReturnNoMemory]

(* An entry of m_framebuffers that holds no framebuffer.                   *)
NoFramebuffer == [nub |-> FALSE]

(* No configuration structure: none passed in, none handed back.           *)
NoConfiguration == [m_magic |-> 0]

(* What a framebuffer method hands back: the framebuffer after the call,   *)
(* the IOReturn, the notifications sent through the provider, the number   *)
(* of m_connectInterruptHandler.fire() calls and of callbacks they made.   *)
Outcome(fb, status, notifications, fires, delivered) ==
    [fb |-> fb, status |-> status, notifications |-> notifications,
     connectFires |-> fires, connectDelivered |-> delivered]

Rejected(fb, status) == Outcome(fb, status, <<>>, 0, 0)

(* DisplayXFBDriver::sendNotification(code, framebuffer): the messages     *)
(* passed to messageClients(); the display index is the framebuffer's      *)
(* place in m_framebuffers.                                                *)
SendNotification(code, displayIndex) ==
    IF displayIndex >= kDisplayXFBMaxDisplays THEN <<>>
    ELSE <<[code |-> code, displayIndex |-> displayIndex]>>

(* vblankEventEnable(enable).                                              *)
VblankEventEnable(fb, enable, now) ==
    IF fb.m_vblankTimerEventSource.present /\ enable # fb.m_vblankTimerIsEnabled
    THEN IF enable
         THEN LET p0 == RefreshPeriodUS(fb.m_configuration)
                  p1 == IF p0 < 1000 THEN 1000 ELSE p0
                  p2 == IF p1 > 1000000 THEN 1000000 ELSE p1
              IN  [fb EXCEPT !.m_vblankTimerIsEnabled = TRUE,
                             !.m_vblankPeriodUS = p2,
                             !.m_vblankTiming = TimingStart(p2, now),
                             !.m_vblankTimerEventSource =
                                 [present |-> TRUE, armed |-> TRUE, timeoutUS |-> p2,
                                  deadline |-> now + (p2 * 1000)]]
         ELSE [fb EXCEPT !.m_vblankTimerIsEnabled = FALSE,
                         !.m_vblankTimerEventSource =
                             [present |-> TRUE, armed |-> FALSE, timeoutUS |-> 0, deadline |-> 0]]
    ELSE fb

(* IOTimerEventSource::setTimeoutUS(us) called at now.                     *)
SetTimeoutUS(ts, us, now) ==
    [ts EXCEPT !.armed = TRUE, !.timeoutUS = us, !.deadline = now + (us * 1000)]

(* The outcome of one run of vblankEventHandler past its test of           *)
(* m_vblankTimerIsEnabled: the framebuffer, what update() returned, the    *)
(* number of m_vblankInterruptHandler.fire() calls and of callbacks made.  *)
Polled(fb, u, timeout, fires, now) ==
    [fb |-> [fb EXCEPT !.m_vblankTiming = u.timing,
                       !.m_vblankTimerEventSource = SetTimeoutUS(@, timeout, now)],
     ticks |-> u.ticks, timeToNextTick |-> u.timeToNextTick,
     fires |-> fires, delivered |-> fires * HandlerFire(fb.m_vblankInterruptHandler)]

(* A defective variant of vblankEventHandler: the timeout is always the    *)
(* time to the next tick.                                                  *)
VblankEventHandlerExact(fb, now) ==
    LET u == TimingUpdate(fb.m_vblankTiming, now)
    IN  Polled(fb, u, u.timeToNextTick,
               (IF u.timeToNextTick < 100 THEN 1 ELSE 0) + (IF u.ticks < 3 THEN u.ticks ELSE 3),
               now)

(* vblankEventHandler() with m_vblankTimerIsEnabled found true, run at now. *)
VblankEventHandler(fb, now) ==
    LET u == TimingUpdate(fb.m_vblankTiming, now)
        soon == u.timeToNextTick < 100
    IN  Polled(fb, u,
               IF soon THEN fb.m_vblankPeriodUS ELSE u.timeToNextTick,
               (IF soon THEN 1 ELSE 0) + (IF u.ticks < 3 THEN u.ticks ELSE 3),
               now)

(* userClientGetConfiguration / userClientGetState: status and the copy.   *)
FramebufferGetConfiguration(fb) ==
    [status |-> kIOReturnSuccess, config |-> fb.m_configuration]

FramebufferGetState(fb) ==
    [status |-> IF StateIsValid(fb.m_state) THEN kIOReturnSuccess ELSE kIOReturnOffline,
     state |-> fb.m_state]

(* A defective variant of userClientMapInTask: the descriptor is not       *)
(* tested.                                                                 *)
FramebufferMapInTaskUnchecked(fb, readOnly, mapType, address, createOk) ==
    LET mem == IF mapType = kDisplayXFBMapTypeDisplay THEN fb.m_displayMemory
               ELSE IF mapType = kDisplayXFBMapTypeCursor THEN fb.m_cursorMemory
               ELSE NoDescriptor
    IN  IF createOk
        THEN [address |-> address, length |-> mem.length, readOnly |-> readOnly]
        ELSE NoMap

(* userClientMapInTask(readOnly, task, mapType). createMappingInTask puts  *)
(* the mapping at an address of the kernel's choosing, or fails.           *)
FramebufferMapInTask(fb, readOnly, mapType, address, createOk) ==
    LET mem == IF mapType = kDisplayXFBMapTypeDisplay THEN fb.m_displayMemory
               ELSE IF mapType = kDisplayXFBMapTypeCursor THEN fb.m_cursorMemory
               ELSE NoDescriptor
    IN  IF mem.allocated /\ createOk
        THEN [address |-> address, length |-> mem.length, readOnly |-> readOnly]
        ELSE NoMap

(* Defective variants of the loop below: one that omits the comparison    *)
(* with the VRAM size, one that reports it as a bad argument.              *)
RECURSIVE CheckModesAnySize(_, _, _)
CheckModesAnySize(config, i, vramSize) ==
    IF i >= ModeCount(config) THEN kIOReturnSuccess
    ELSE LET mode == Mode(config, i)
             state == MakeState(config, StateConstruct, i, 0)
         IN  IF mode.m_width < kDisplayXFBMinWidth \/ mode.m_height < kDisplayXFBMinHeight
             THEN kIOReturnBadArgument
             ELSE IF ~StateIsValid(state) THEN kIOReturnBadArgument
             ELSE CheckModesAnySize(config, i + 1, vramSize)

RECURSIVE CheckModesBadArgument(_, _, _)
CheckModesBadArgument(config, i, vramSize) ==
    IF i >= ModeCount(config) THEN kIOReturnSuccess
    ELSE LET mode == Mode(config, i)
             state == MakeState(config, StateConstruct, i, 0)
         IN  IF mode.m_width < kDisplayXFBMinWidth \/ mode.m_height < kDisplayXFBMinHeight
             THEN kIOReturnBadArgument
             ELSE IF ~StateIsValid(state) THEN kIOReturnBadArgument
             ELSE IF GtW(AddW(BytesPerFrame(state), ToW(kFramePadding)), ToW(vramSize))
             THEN kIOReturnBadArgument
             ELSE CheckModesBadArgument(config, i + 1, vramSize)

(* The loop of userClientSetConfiguration over the modes, from mode i.     *)
RECURSIVE CheckModes(_, _, _)
CheckModes(config, i, vramSize) ==
    IF i >= ModeCount(config) THEN kIOReturnSuccess
    ELSE LET mode == Mode(config, i)
             state == MakeState(config, StateConstruct, i, 0)
         IN  IF mode.m_width < kDisplayXFBMinWidth \/ mode.m_height < kDisplayXFBMinHeight
             THEN kIOReturnBadArgument
             ELSE IF ~StateIsValid(state) THEN kIOReturnBadArgument
             ELSE IF GtW(AddW(BytesPerFrame(state), ToW(kFramePadding)), ToW(vramSize))
             THEN kIOReturnNoMemory
             ELSE CheckModes(config, i + 1, vramSize)

(* Defective variants of userClientSetConfiguration: one that does not     *)
(* test the connected flag, one that leaves the state's mode alone.        *)
FramebufferSetConfigurationWhileConnected(fb, config) ==
    IF ~ConfigIsValid(config) THEN Rejected(fb, kIOReturnBadArgument)
    ELSE IF ModeCount(config) = 0 THEN Rejected(fb, kIOReturnBadArgument)
    ELSE LET modes == CheckModes(config, 0, fb.m_vramSize)
         IN  IF modes # kIOReturnSuccess THEN Rejected(fb, modes)
             ELSE Outcome([fb EXCEPT !.m_configuration = config,
                                     !.m_state = StateSetMode(@, DefaultMode(config),
                                                              DefaultModeIndex(config))],
                          kIOReturnSuccess, <<>>, 0, 0)

FramebufferSetConfigurationKeepsMode(fb, config) ==
    IF ~ConfigIsValid(config) THEN Rejected(fb, kIOReturnBadArgument)
    ELSE IF ModeCount(config) = 0 THEN Rejected(fb, kIOReturnBadArgument)
    ELSE IF IsConnected(fb.m_state) THEN Rejected(fb, kIOReturnBusy)
    ELSE LET modes == CheckModes(config, 0, fb.m_vramSize)
         IN  IF modes # kIOReturnSuccess THEN Rejected(fb, modes)
             ELSE Outcome([fb EXCEPT !.m_configuration = config],
                          kIOReturnSuccess, <<>>, 0, 0)

(* A defective variant of userClientSetConfiguration: a configuration      *)
(* without modes is let through.                                           *)
FramebufferSetConfigurationEmpty(fb, config) ==
    IF ~ConfigIsValid(config) THEN Rejected(fb, kIOReturnBadArgument)
    ELSE IF IsConnected(fb.m_state) THEN Rejected(fb, kIOReturnBusy)
    ELSE LET modes == CheckModes(config, 0, fb.m_vramSize)
         IN  IF modes # kIOReturnSuccess THEN Rejected(fb, modes)
             ELSE Outcome([fb EXCEPT !.m_configuration = config,
                                     !.m_state = StateSetMode(@, DefaultMode(config),
                                                              DefaultModeIndex(config))],
                          kIOReturnSuccess, <<>>, 0, 0)

(* userClientSetConfiguration(config).                                     *)
FramebufferSetConfiguration(fb, config) ==
    IF ~ConfigIsValid(config) THEN Rejected(fb, kIOReturnBadArgument)
    ELSE IF ModeCount(config) = 0 THEN Rejected(fb, kIOReturnBadArgument)
    ELSE IF IsConnected(fb.m_state) THEN Rejected(fb, kIOReturnBusy)
    ELSE LET modes == CheckModes(config, 0, fb.m_vramSize)
         IN  IF modes # kIOReturnSuccess THEN Rejected(fb, modes)
             ELSE Outcome([fb EXCEPT !.m_configuration = config,
                                     !.m_state = StateSetMode(@, DefaultMode(config),
                                                              DefaultModeIndex(config))],
                          kIOReturnSuccess, <<>>, 0, 0)

(* A defective variant of userClientConnect: no test of the connected flag. *)
FramebufferConnectAgain(fb, now) ==
    IF ~ConfigIsValid(fb.m_configuration) \/ ModeCount(fb.m_configuration) = 0
    THEN Rejected(fb, kIOReturnUnsupportedMode)
    ELSE LET made == MakeState(fb.m_configuration, fb.m_state,
                               DefaultModeIndex(fb.m_configuration), 0)
             fb1 == [fb EXCEPT !.m_state = SetIsConnected(made, TRUE)]
             fb2 == VblankEventEnable(fb1, TRUE, now)
         IN  Outcome(fb2, kIOReturnSuccess,
                     SendNotification(kDisplayXFBNotificationDisplayState, fb.m_displayIndex),
                     1, HandlerFire(fb.m_connectInterruptHandler))

(* userClientConnect().                                                    *)
FramebufferConnect(fb, now) ==
    IF IsConnected(fb.m_state) THEN Rejected(fb, kIOReturnNotPermitted)
    ELSE IF ~ConfigIsValid(fb.m_configuration) \/ ModeCount(fb.m_configuration) = 0
    THEN Rejected(fb, kIOReturnUnsupportedMode)
    ELSE LET made == MakeState(fb.m_configuration, fb.m_state,
                               DefaultModeIndex(fb.m_configuration), 0)
             fb1 == [fb EXCEPT !.m_state = SetIsConnected(made, TRUE)]
             fb2 == VblankEventEnable(fb1, TRUE, now)
         IN  Outcome(fb2, kIOReturnSuccess,
                     SendNotification(kDisplayXFBNotificationDisplayState, fb.m_displayIndex),
                     1, HandlerFire(fb.m_connectInterruptHandler))

(* A defective variant of userClientDisconnect: it signals whether or not  *)
(* the display was connected.                                              *)
FramebufferDisconnectAlways(fb, now) ==
    LET fb1 == [fb EXCEPT !.m_state = SetIsConnected(@, FALSE)]
        fb2 == VblankEventEnable(fb1, FALSE, now)
    IN  Outcome(fb2, kIOReturnSuccess,
                SendNotification(kDisplayXFBNotificationDisplayState, fb.m_displayIndex),
                1, HandlerFire(fb.m_connectInterruptHandler))

(* A defective variant of userClientDisconnect: the vblank timer is left   *)
(* as it is.                                                               *)
FramebufferDisconnectKeepsTimer(fb, now) ==
    IF IsConnected(fb.m_state)
    THEN Outcome([fb EXCEPT !.m_state = SetIsConnected(@, FALSE)], kIOReturnSuccess,
                 SendNotification(kDisplayXFBNotificationDisplayState, fb.m_displayIndex),
                 1, HandlerFire(fb.m_connectInterruptHandler))
    ELSE Rejected(fb, kIOReturnSuccess)

(* userClientDisconnect().                                                 *)
FramebufferDisconnect(fb, now) ==
    IF IsConnected(fb.m_state)
    THEN LET fb1 == [fb EXCEPT !.m_state = SetIsConnected(@, FALSE)]
             fb2 == VblankEventEnable(fb1, FALSE, now)
         IN  Outcome(fb2, kIOReturnSuccess,
                     SendNotification(kDisplayXFBNotificationDisplayState, fb.m_displayIndex),
                     1, HandlerFire(fb.m_connectInterruptHandler))
    ELSE Rejected(fb, kIOReturnSuccess)

(* A defective variant of setDisplayMode: the mode ID taken as the index.  *)
FramebufferSetDisplayModeByID(fb, displayMode, depth) ==
    IF depth = 0 /\ displayMode >= 1 /\ displayMode - 1 < ModeCount(fb.m_configuration)
    THEN Outcome([fb EXCEPT !.m_state =
                      StateSetMode(@, Mode(fb.m_configuration, displayMode), displayMode)],
                 kIOReturnSuccess,
                 SendNotification(kDisplayXFBNotificationDisplayState, fb.m_displayIndex),
                 0, 0)
    ELSE Rejected(fb, kIOReturnUnsupported)

(* A defective variant of setDisplayMode: the depth is not looked at.      *)
FramebufferSetDisplayModeAnyDepth(fb, displayMode, depth) ==
    IF displayMode >= 1 /\ displayMode - 1 < ModeCount(fb.m_configuration)
    THEN Outcome([fb EXCEPT !.m_state =
                      StateSetMode(@, Mode(fb.m_configuration, displayMode - 1),
                                   displayMode - 1)],
                 kIOReturnSuccess,
                 SendNotification(kDisplayXFBNotificationDisplayState, fb.m_displayIndex),
                 0, 0)
    ELSE Rejected(fb, kIOReturnUnsupported)

(* setDisplayMode(displayMode, depth): modeIndex is displayMode - 1 as an  *)
(* unsigned, so displayMode 0 gives an index above every mode count.       *)
FramebufferSetDisplayMode(fb, displayMode, depth) ==
    IF depth = 0 /\ displayMode >= 1 /\ displayMode - 1 < ModeCount(fb.m_configuration)
    THEN Outcome([fb EXCEPT !.m_state =
                      StateSetMode(@, Mode(fb.m_configuration, displayMode - 1),
                                   displayMode - 1)],
                 kIOReturnSuccess,
                 SendNotification(kDisplayXFBNotificationDisplayState, fb.m_displayIndex),
                 0, 0)
    ELSE Rejected(fb, kIOReturnUnsupported)

(* What IOFramebuffer::convertCursorImage hands back for the image the     *)
(* host passes: whether it could convert it to the 32-bit ARGB format and  *)
(* the hot spot and size it wrote to the IOHardwareCursorInfo, within the  *)
(* kMaxWidth x kMaxHeight of the descriptor.                               *)
Converted(ok, hotX, hotY, width, height) ==
    [ok |-> ok, cursorHotSpotX |-> hotX, cursorHotSpotY |-> hotY,
     cursorWidth |-> width, cursorHeight |-> height]

NotConverted == Converted(FALSE, 0, 0, 0, 0)

(* A defective variant of setCursorImage: a failed conversion leaves       *)
(* m_isValid as it was.                                                    *)
FramebufferSetCursorImageKeepsValid(fb, info) ==
    IF ~info.ok THEN Rejected(fb, kIOReturnUnsupported)
    ELSE Outcome([fb EXCEPT !.m_cursor.m_hotspotX = info.cursorHotSpotX,
                            !.m_cursor.m_hotspotY = info.cursorHotSpotY,
                            !.m_cursor.m_width = info.cursorWidth,
                            !.m_cursor.m_height = info.cursorHeight,
                            !.m_cursor.m_isValid = 1],
                 kIOReturnSuccess,
                 SendNotification(kDisplayXFBNotificationCursorImage, fb.m_displayIndex),
                 0, 0)

(* setCursorImage(cursorImage) on a framebuffer whose enableController     *)
(* succeeded (the host opens no other); info is the conversion's result.   *)
FramebufferSetCursorImage(fb, info) ==
    IF ~info.ok THEN Rejected([fb EXCEPT !.m_cursor.m_isValid = 0], kIOReturnUnsupported)
    ELSE Outcome([fb EXCEPT !.m_cursor.m_hotspotX = info.cursorHotSpotX,
                            !.m_cursor.m_hotspotY = info.cursorHotSpotY,
                            !.m_cursor.m_width = info.cursorWidth,
                            !.m_cursor.m_height = info.cursorHeight,
                            !.m_cursor.m_isValid = 1],
                 kIOReturnSuccess,
                 SendNotification(kDisplayXFBNotificationCursorImage, fb.m_displayIndex),
                 0, 0)

(* setCursorState(x, y, visible), on such a framebuffer.                   *)
FramebufferSetCursorState(fb, x, y, visible) ==
    Outcome([fb EXCEPT !.m_cursor.m_x = x, !.m_cursor.m_y = y,
                       !.m_cursor.m_isVisible = IF visible THEN 1 ELSE 0],
            kIOReturnSuccess,
            SendNotification(kDisplayXFBNotificationCursorState, fb.m_displayIndex),
            0, 0)

(* registerForInterruptType(interruptType, proc, ...), proc and            *)
(* interruptRef not null.                                                  *)
FramebufferRegisterForInterruptType(fb, interruptType) ==
    IF interruptType = kIOFBConnectInterruptType
    THEN IF fb.m_connectInterruptHandler.m_handler THEN Rejected(fb, kIOReturnBusy)
         ELSE Rejected([fb EXCEPT !.m_connectInterruptHandler = HandlerAssign(@)],
                       kIOReturnSuccess)
    ELSE IF interruptType = kIOFBVBLInterruptType
    THEN IF fb.m_vblankInterruptHandler.m_handler THEN Rejected(fb, kIOReturnBusy)
         ELSE Rejected([fb EXCEPT !.m_vblankInterruptHandler = HandlerAssign(@)],
                       kIOReturnSuccess)
    ELSE Rejected(fb, kIOReturnUnsupported)

(* unregisterInterrupt(interruptRef); interruptRef names the handler.      *)
FramebufferUnregisterInterrupt(fb, interruptRef) ==
    IF interruptRef = kIOFBConnectInterruptType
    THEN Rejected([fb EXCEPT !.m_connectInterruptHandler = HandlerInit], kIOReturnSuccess)
    ELSE IF interruptRef = kIOFBVBLInterruptType
    THEN Rejected([fb EXCEPT !.m_vblankInterruptHandler = HandlerInit], kIOReturnSuccess)
    ELSE Rejected(fb, kIOReturnUnsupported)

(* setInterruptState(interruptRef, state), interruptRef one of the two     *)
(* handlers.                                                               *)
FramebufferSetInterruptState(fb, interruptRef, state) ==
    IF interruptRef = kIOFBConnectInterruptType
    THEN Rejected([fb EXCEPT !.m_connectInterruptHandler = HandlerSetEnabled(@, state # 0)],
                  kIOReturnSuccess)
    ELSE Rejected([fb EXCEPT !.m_vblankInterruptHandler = HandlerSetEnabled(@, state # 0)],
                  kIOReturnSuccess)

---------------------------------------------------------------------------
(* Configurations a client passes to set-configuration. A client fills the *)
(* structure through its methods or writes the shared fields directly.     *)

TestName == <<84, 101, 115, 116>>

(* 1280x800 (default) and 1920x1080.                                       *)
CfgScenario ==
    AppendMode(AppendMode(ConfigInitialise(TestName), 1280, 800, TRUE), 1920, 1080, FALSE)

(* 640x480 and 2560x1600 (default), 32 bytes of row padding, 30 Hz.        *)
CfgPadded ==
    [AppendMode(AppendMode(ConfigInitialise(TestName), 640, 480, FALSE), 2560, 1600, TRUE)
        EXCEPT !.m_rowPadding = 32, !.m_refreshRate = 1966080]

(* No modes.                                                               *)
CfgEmpty == ConfigInitialise(TestName)

(* The magic overwritten.                                                  *)
CfgBadMagic == [CfgScenario EXCEPT !.m_magic = 0]

(* One mode of the largest size.                                           *)
CfgBig == AppendMode(ConfigInitialise(TestName), kDisplayXFBMaxWidth, kDisplayXFBMaxHeight, TRUE)

(* One mode, and a default mode index written past it.                     *)
CfgDefaultOutOfRange ==
    [AppendMode(ConfigInitialise(TestName), 1280, 800, TRUE) EXCEPT !.m_defaultModeIndex = 1]

(* A second mode written below the minimum size.                           *)
CfgSmallRaw == [CfgScenario EXCEPT !.m_modes[1] = RawMode(100, 100)]

(* The largest mode first, then one below the minimum size.                *)
CfgBigSmallRaw ==
    [AppendMode(CfgBig, 640, 480, FALSE) EXCEPT !.m_modes[1] = RawMode(100, 100)]

(* A mode whose width was written as 2^30: 4 * width is 0 modulo 2^32.     *)
CfgWrap ==
    [AppendMode(ConfigInitialise(TestName), 1280, 800, TRUE)
        EXCEPT !.m_modes[0] = RawMode(1073741824, 1080)]

ClientConfigurations ==
    {CfgScenario, CfgPadded, CfgEmpty, CfgBadMagic, CfgBig, CfgDefaultOutOfRange,
     CfgSmallRaw, CfgBigSmallRaw, CfgWrap}

(* <<displayIndex, config, structure size is sizeof(config)>>.             *)
SetConfigurationArgs ==
    ({0} \X ClientConfigurations \X {TRUE})
        \cup {<<0, CfgScenario, FALSE>>, <<m_displayCount, CfgScenario, TRUE>>}

(* <<displayMode, depth>> of the host's setDisplayMode.                    *)
SetDisplayModeArgs == ((0 .. 3) \X {0}) \cup {<<1, 1>>}

---------------------------------------------------------------------------
VARIABLES
    m_framebuffers,   \* DisplayXFBDriver: the framebuffer of each display index
    m_clients,        \* DisplayXFBDriver: the open sessions
    isInactive,       \* DisplayXFBUserClient: terminated
    m_memoryMaps,     \* DisplayXFBUserClient: mappings held, per display and type
    uptime,           \* clock_get_uptime(), in ns; the calls below take no time
    last,             \* the most recent call
    hist,             \* history counters
    locals            \* the locals of a caller of one of the structures' methods

vars == <<m_framebuffers, m_clients, isInactive, m_memoryMaps, uptime, last, hist, locals>>

---------------------------------------------------------------------------
(* DisplayXFBDriver.                                                       *)

HandleIsOpen(clients, forClient) ==
    \E i \in DOMAIN clients : clients[i] = forClient

(* The first free slot, or kDisplayXFBMaxClients if there is none.         *)
FirstFreeSlot(clients) ==
    IF \E i \in DOMAIN clients : clients[i] = NoClient
    THEN CHOOSE i \in DOMAIN clients :
            clients[i] = NoClient /\ \A j \in DOMAIN clients : j < i => clients[j] # NoClient
    ELSE kDisplayXFBMaxClients

(* A defective variant of handleOpen: with no slot free it takes slot 0.   *)
HandleOpenEvicts(clients, forClient) ==
    IF forClient = NoClient \/ HandleIsOpen(clients, forClient)
    THEN [ok |-> FALSE, clients |-> clients]
    ELSE IF FirstFreeSlot(clients) = kDisplayXFBMaxClients
    THEN [ok |-> TRUE, clients |-> [clients EXCEPT ![0] = forClient]]
    ELSE [ok |-> TRUE, clients |-> [clients EXCEPT ![FirstFreeSlot(clients)] = forClient]]

(* A defective variant of handleOpen: no test for a session already open.  *)
HandleOpenTwice(clients, forClient) ==
    IF forClient = NoClient \/ FirstFreeSlot(clients) = kDisplayXFBMaxClients
    THEN [ok |-> FALSE, clients |-> clients]
    ELSE [ok |-> TRUE, clients |-> [clients EXCEPT ![FirstFreeSlot(clients)] = forClient]]

(* handleOpen(forClient): granted, and the table after.                    *)
HandleOpen(clients, forClient) ==
    IF forClient = NoClient \/ HandleIsOpen(clients, forClient)
        \/ FirstFreeSlot(clients) = kDisplayXFBMaxClients
    THEN [ok |-> FALSE, clients |-> clients]
    ELSE [ok |-> TRUE, clients |-> [clients EXCEPT ![FirstFreeSlot(clients)] = forClient]]

HandleClose(clients, forClient) ==
    [i \in DOMAIN clients |-> IF clients[i] = forClient THEN NoClient ELSE clients[i]]

IndexToFramebuffer(fbs, displayIndex) ==
    IF displayIndex < kDisplayXFBMaxDisplays THEN fbs[displayIndex] ELSE NoFramebuffer

ValidateDisplayIndex(fbs, displayIndex) == IndexToFramebuffer(fbs, displayIndex).nub

(* A defective variant of the dispatch below: the call reaches every       *)
(* framebuffer.                                                            *)
StoreFramebufferEverywhere(fbs, displayIndex, fb) ==
    IF displayIndex < kDisplayXFBMaxDisplays /\ fbs[displayIndex].nub
    THEN [j \in DOMAIN fbs |->
             IF fbs[j].nub THEN [fb EXCEPT !.m_displayIndex = j] ELSE fbs[j]]
    ELSE fbs

(* The table after a call on the device at displayIndex left it as fb.     *)
StoreFramebuffer(fbs, displayIndex, fb) ==
    IF displayIndex < kDisplayXFBMaxDisplays /\ fbs[displayIndex].nub
    THEN [fbs EXCEPT ![displayIndex] = fb]
    ELSE fbs

DriverSetConfiguration(fbs, config, displayIndex) ==
    LET device == IndexToFramebuffer(fbs, displayIndex)
    IN  IF ~device.nub THEN Rejected(device, kIOReturnNotFound)
        ELSE FramebufferSetConfiguration(device, config)

DriverConnect(fbs, displayIndex, now) ==
    LET device == IndexToFramebuffer(fbs, displayIndex)
    IN  IF ~device.nub THEN Rejected(device, kIOReturnNotFound)
        ELSE FramebufferConnect(device, now)

DriverDisconnect(fbs, displayIndex, now) ==
    LET device == IndexToFramebuffer(fbs, displayIndex)
    IN  IF ~device.nub THEN Rejected(device, kIOReturnNotFound)
        ELSE FramebufferDisconnect(device, now)

DriverGetState(fbs, displayIndex) ==
    LET device == IndexToFramebuffer(fbs, displayIndex)
    IN  IF ~device.nub THEN [status |-> kIOReturnNotFound, state |-> StateConstruct]
        ELSE FramebufferGetState(device)

DriverGetConfiguration(fbs, displayIndex) ==
    LET device == IndexToFramebuffer(fbs, displayIndex)
    IN  IF ~device.nub THEN [status |-> kIOReturnNotFound, config |-> NoConfiguration]
        ELSE FramebufferGetConfiguration(device)

(* userClientMapInTask(readOnly, task, displayIndex, mapType).             *)
DriverMapInTask(fbs, readOnly, displayIndex, mapType, address, createOk) ==
    LET device == IndexToFramebuffer(fbs, displayIndex)
    IN  IF ~device.nub THEN NoMap
        ELSE FramebufferMapInTask(device, readOnly, mapType, address, createOk)

(* A defective variant of the driver's userClientClose: it disconnects     *)
(* every display.                                                          *)
DriverUserClientCloseDisconnects(fbs, now) ==
    [i \in DOMAIN fbs |->
        IF fbs[i].nub THEN FramebufferDisconnect(fbs[i], now).fb ELSE fbs[i]]

(* userClientClose(): the framebuffers after; it returns kIOReturnSuccess. *)
DriverUserClientClose(fbs, now) == fbs

---------------------------------------------------------------------------
(* DisplayXFBUserClient: the protocol methods. Each checks the structure   *)
(* size, that the client is attached, that its session is open and the     *)
(* display index, in the order of the method, then calls the provider.     *)

Device(displayIndex) == IndexToFramebuffer(m_framebuffers, displayIndex)

IsOpen(c) == HandleIsOpen(m_clients, c)

UserClientSetConfiguration(c, displayIndex, config, sizeOk) ==
    IF ~sizeOk THEN Rejected(Device(displayIndex), kIOReturnBadArgument)
    ELSE IF ~ConfigIsValid(config) THEN Rejected(Device(displayIndex), kIOReturnBadArgument)
    ELSE IF isInactive[c] THEN Rejected(Device(displayIndex), kIOReturnNotAttached)
    ELSE IF ~IsOpen(c) THEN Rejected(Device(displayIndex), kIOReturnNotOpen)
    ELSE IF ~ValidateDisplayIndex(m_framebuffers, displayIndex)
    THEN Rejected(Device(displayIndex), kIOReturnNotFound)
    ELSE DriverSetConfiguration(m_framebuffers, config, displayIndex)

(* A defective variant of userClientConnect: no test of the session.       *)
UserClientConnectUnopened(c, displayIndex) ==
    IF isInactive[c] THEN Rejected(Device(displayIndex), kIOReturnNotAttached)
    ELSE DriverConnect(m_framebuffers, displayIndex, uptime)

UserClientConnect(c, displayIndex) ==
    IF isInactive[c] THEN Rejected(Device(displayIndex), kIOReturnNotAttached)
    ELSE IF ~IsOpen(c) THEN Rejected(Device(displayIndex), kIOReturnNotOpen)
    ELSE DriverConnect(m_framebuffers, displayIndex, uptime)

UserClientDisconnect(c, displayIndex) ==
    IF isInactive[c] THEN Rejected(Device(displayIndex), kIOReturnNotAttached)
    ELSE IF ~IsOpen(c) THEN Rejected(Device(displayIndex), kIOReturnNotOpen)
    ELSE DriverDisconnect(m_framebuffers, displayIndex, uptime)

UserClientGetState(c, displayIndex, sizeOk) ==
    IF ~sizeOk THEN [status |-> kIOReturnBadArgument, state |-> StateConstruct]
    ELSE IF isInactive[c] THEN [status |-> kIOReturnNotAttached, state |-> StateConstruct]
    ELSE IF ~IsOpen(c) THEN [status |-> kIOReturnNotOpen, state |-> StateConstruct]
    ELSE IF ~ValidateDisplayIndex(m_framebuffers, displayIndex)
    THEN [status |-> kIOReturnNotFound, state |-> StateConstruct]
    ELSE DriverGetState(m_framebuffers, displayIndex)

UserClientGetConfiguration(c, displayIndex, sizeOk) ==
    IF ~sizeOk THEN [status |-> kIOReturnBadArgument, config |-> NoConfiguration]
    ELSE IF isInactive[c] THEN [status |-> kIOReturnNotAttached, config |-> NoConfiguration]
    ELSE IF ~IsOpen(c) THEN [status |-> kIOReturnNotOpen, config |-> NoConfiguration]
    ELSE IF ~ValidateDisplayIndex(m_framebuffers, displayIndex)
    THEN [status |-> kIOReturnNotFound, config |-> NoConfiguration]
    ELSE DriverGetConfiguration(m_framebuffers, displayIndex)

(* A defective variant of the line below: the size left as passed in.      *)
SizeKept(status, sizeNotZero) == sizeNotZero

(* if (kIOReturnSuccess != status && size) *size = 0; a size field is      *)
(* modelled by whether it is not zero.                                     *)
SizeAfter(status, sizeNotZero) == IF status # kIOReturnSuccess THEN FALSE ELSE sizeNotZero

(* userClientOpen(info, infoSize): status and the session table after.     *)
UserClientOpen(c, sizeOk) ==
    IF ~sizeOk THEN [status |-> kIOReturnBadArgument, clients |-> m_clients]
    ELSE IF isInactive[c] THEN [status |-> kIOReturnNotAttached, clients |-> m_clients]
    ELSE LET opened == HandleOpen(m_clients, c)
         IN  IF ~opened.ok THEN [status |-> kIOReturnError, clients |-> m_clients]
             ELSE [status |-> kIOReturnSuccess, clients |-> opened.clients]

NoMemoryMaps == [k \in (0 .. (kDisplayXFBMaxDisplays - 1)) \X (0 .. (kDisplayXFBMaxMapTypes - 1)) |-> NoMap]

(* A defective variant of userClientClose: the mappings are kept.          *)
UserClientCloseKeepsMaps(c) ==
    IF ~IsOpen(c)
    THEN [status |-> kIOReturnNotOpen, clients |-> m_clients, maps |-> m_memoryMaps[c],
          fbs |-> m_framebuffers]
    ELSE [status |-> kIOReturnSuccess, clients |-> HandleClose(m_clients, c),
          maps |-> m_memoryMaps[c], fbs |-> DriverUserClientClose(m_framebuffers, uptime)]

(* userClientClose(): status, the session table, the mappings and the      *)
(* framebuffers after.                                                     *)
UserClientClose(c) ==
    IF ~IsOpen(c)
    THEN [status |-> kIOReturnNotOpen, clients |-> m_clients, maps |-> m_memoryMaps[c],
          fbs |-> m_framebuffers]
    ELSE [status |-> kIOReturnSuccess, clients |-> HandleClose(m_clients, c),
          maps |-> NoMemoryMaps, fbs |-> DriverUserClientClose(m_framebuffers, uptime)]

(* What userClientMap hands back: status, the client's mappings after, the *)
(* DisplayXFBMap written and whether a mapping was created.                *)
MapResult(status, maps, map, created) ==
    [status |-> status, maps |-> maps, map |-> map, created |-> created]

(* A defective variant of userClientMap: m_memoryMaps is not consulted.    *)
UserClientMapAgain(c, displayIndex, mapType, readOnly, sizeOk, address, createOk) ==
    IF ~sizeOk THEN MapResult(kIOReturnBadArgument, m_memoryMaps[c], NoMap, FALSE)
    ELSE IF mapType >= kDisplayXFBMaxMapTypes
    THEN MapResult(kIOReturnBadArgument, m_memoryMaps[c], NoMap, FALSE)
    ELSE IF isInactive[c] THEN MapResult(kIOReturnNotAttached, m_memoryMaps[c], NoMap, FALSE)
    ELSE IF ~IsOpen(c) THEN MapResult(kIOReturnNotOpen, m_memoryMaps[c], NoMap, FALSE)
    ELSE IF ~ValidateDisplayIndex(m_framebuffers, displayIndex)
    THEN MapResult(kIOReturnNotFound, m_memoryMaps[c], NoMap, FALSE)
    ELSE LET iomap == DriverMapInTask(m_framebuffers, readOnly, displayIndex, mapType,
                                      address, createOk)
         IN  IF iomap = NoMap
             THEN MapResult(kIOReturnNoMemory, m_memoryMaps[c], NoMap, FALSE)
             ELSE MapResult(kIOReturnSuccess,
                            [m_memoryMaps[c] EXCEPT ![<<displayIndex, mapType>>] = iomap],
                            [address |-> iomap.address, length |-> iomap.length],
                            TRUE)

(* userClientMap(displayIndex, mapType, readOnly, map, mapSize).           *)
UserClientMap(c, displayIndex, mapType, readOnly, sizeOk, address, createOk) ==
    IF ~sizeOk THEN MapResult(kIOReturnBadArgument, m_memoryMaps[c], NoMap, FALSE)
    ELSE IF mapType >= kDisplayXFBMaxMapTypes
    THEN MapResult(kIOReturnBadArgument, m_memoryMaps[c], NoMap, FALSE)
    ELSE IF isInactive[c] THEN MapResult(kIOReturnNotAttached, m_memoryMaps[c], NoMap, FALSE)
    ELSE IF ~IsOpen(c) THEN MapResult(kIOReturnNotOpen, m_memoryMaps[c], NoMap, FALSE)
    ELSE IF ~ValidateDisplayIndex(m_framebuffers, displayIndex)
    THEN MapResult(kIOReturnNotFound, m_memoryMaps[c], NoMap, FALSE)
    ELSE LET held == m_memoryMaps[c][<<displayIndex, mapType>>]
             iomap == IF held # NoMap THEN held
                      ELSE DriverMapInTask(m_framebuffers, readOnly, displayIndex, mapType,
                                           address, createOk)
         IN  IF iomap = NoMap
             THEN MapResult(kIOReturnNoMemory, m_memoryMaps[c], NoMap, FALSE)
             ELSE MapResult(kIOReturnSuccess,
                            [m_memoryMaps[c] EXCEPT ![<<displayIndex, mapType>>] = iomap],
                            [address |-> iomap.address, length |-> iomap.length],
                            held = NoMap)

---------------------------------------------------------------------------
(* The record of a call and the history counters.                          *)

(* The number of mappings client c holds.                                  *)
Held(c) ==
    IF c = NoClient THEN 0
    ELSE Cardinality({k \in DOMAIN m_memoryMaps[c] : m_memoryMaps[c][k] # NoMap})

(* The lowest address (in units of a mapping) not taken in c's task.       *)
FreeAddress(c) ==
    CHOOSE a \in 1 .. (Held(c) + 1) :
        /\ \A k \in DOMAIN m_memoryMaps[c] : m_memoryMaps[c][k].address # a
        /\ \A b \in 1 .. (a - 1) : \E k \in DOMAIN m_memoryMaps[c] : m_memoryMaps[c][k].address = b

SessionOf(c) ==
    IF c = NoClient THEN "host"
    ELSE IF isInactive[c] THEN "inactive"
    ELSE IF IsOpen(c) THEN "open"
    ELSE "closed"

CallRecord(op, c, displayIndex, r) ==
    [op |-> op, client |-> c, displayIndex |-> displayIndex,
     session |-> SessionOf(c), held |-> Held(c), sizeOk |-> TRUE,
     status |-> r.status,
     notifications |-> r.notifications,
     connectFires |-> r.connectFires,
     connectDelivered |-> r.connectDelivered,
     pre |-> Device(displayIndex),
     config |-> NoConfiguration, displayMode |-> 0, depth |-> 0,
     outSize |-> FALSE, outState |-> StateConstruct, outConfig |-> NoConfiguration,
     mapType |-> 0, readOnly |-> FALSE, created |-> FALSE, outMap |-> NoMap,
     info |-> NotConverted, x |-> 0, y |-> 0, visible |-> FALSE]

Quiet(status) == Rejected(NoFramebuffer, status)

(* The steps of the scenario: open, set-configuration of CfgScenario,      *)
(* connect, get-state, setDisplayMode to the second mode, get-state,       *)
(* disconnect, get-state, all on display 0 and all successful.             *)
ScenarioStepIs(n, l) ==
    /\ l.status = kIOReturnSuccess
    /\ \/ n = 1 /\ l.op = "open"
       \/ n = 2 /\ l.op = "setConfiguration" /\ l.displayIndex = 0 /\ l.config = CfgScenario
       \/ n = 3 /\ l.op = "connect" /\ l.displayIndex = 0
       \/ n \in {4, 6, 8} /\ l.op = "getState" /\ l.displayIndex = 0
       \/ n = 5 /\ l.op = "setDisplayMode" /\ l.displayIndex = 0 /\ l.displayMode = 2
       \/ n = 7 /\ l.op = "disconnect" /\ l.displayIndex = 0

ScenarioStep(n, l) ==
    IF n < 8 /\ ScenarioStepIs(n + 1, l) THEN n + 1
    ELSE IF ScenarioStepIs(1, l) THEN 1
    ELSE 0

(* hist after the call recorded in l left the device as fb.                *)
HistAfter(l, fb) ==
    [flagChanges |-> hist.flagChanges
        + (IF l.pre.nub /\ fb.nub /\ IsConnected(l.pre.m_state) # IsConnected(fb.m_state)
           THEN 1 ELSE 0),
     notifications |-> hist.notifications
        + (IF l.op \in {"connect", "disconnect"} THEN Len(l.notifications) ELSE 0),
     scenario |-> ScenarioStep(hist.scenario, l)]

(* A call with outcome r that signals is taken only while the counters are *)
(* below MaxEvents.                                                        *)
CanCount(r) ==
    r.notifications # <<>> => hist.flagChanges < MaxEvents /\ hist.notifications < MaxEvents

---------------------------------------------------------------------------
(* The driver after DisplayXFBDriver::start(): every display's framebuffer *)
(* started with the VRAM size the driver read, its work loop and vblank    *)
(* timer source created; no session open, no user client terminated.       *)

(* No call of a structure's method in progress.                            *)
NoLocals == [pc |-> "none"]

(* The framebuffers started and enabled by the host; vrams are the VRAM    *)
(* sizes and allocs the outcomes of the two allocations of                 *)
(* enableController to consider.                                           *)
DisplaysStarted(vrams, allocs) ==
    \E vram \in vrams, a \in allocs :
        m_framebuffers =
            [i \in 0 .. (kDisplayXFBMaxDisplays - 1) |->
                IF i \in Displays
                THEN FramebufferEnableController(FramebufferStart(i, vram, TRUE), a[1], a[2]).fb
                ELSE NoFramebuffer]

DriverStart ==
    /\ DisplaysStarted(VRAMSizes, {<<TRUE, TRUE>>})
    /\ m_clients = [i \in 0 .. (kDisplayXFBMaxClients - 1) |-> NoClient]
    /\ isInactive = [c \in Clients |-> FALSE]
    /\ m_memoryMaps = [c \in Clients |-> NoMemoryMaps]
    /\ uptime = 0
    /\ last = CallRecord("start", NoClient, 0, Quiet(kIOReturnSuccess))
    /\ hist = [flagChanges |-> 0, notifications |-> 0, scenario |-> 0]

Init == DriverStart /\ locals = NoLocals

---------------------------------------------------------------------------
(* Client calls.                                                           *)

OpenSession(c, sizeOk) ==
    LET r == UserClientOpen(c, sizeOk)
        l == [CallRecord("open", c, 0, Quiet(r.status))
                 EXCEPT !.outSize = SizeAfter(r.status, TRUE), !.sizeOk = sizeOk]
    IN  /\ m_clients' = r.clients
        /\ last' = l
        /\ hist' = HistAfter(l, Device(0))
        /\ UNCHANGED <<m_framebuffers, isInactive, m_memoryMaps, locals>>

UCOpen(c, sizeOk) == OpenSession(c, sizeOk) /\ UNCHANGED uptime

CloseSession(c) ==
    LET r == UserClientClose(c)
        l == CallRecord("close", c, 0, Quiet(r.status))
    IN  /\ m_clients' = r.clients
        /\ m_memoryMaps' = [m_memoryMaps EXCEPT ![c] = r.maps]
        /\ m_framebuffers' = r.fbs
        /\ last' = l
        /\ hist' = HistAfter(l, r.fbs[0])
        /\ UNCHANGED <<isInactive, locals>>

UCClose(c) == CloseSession(c) /\ UNCHANGED uptime

(* userClientMap; a mapping created is put at the lowest address free in   *)
(* the client's task.                                                      *)
UCMap(c, displayIndex, mapType, readOnly, sizeOk, createOk) ==
    LET r == UserClientMap(c, displayIndex, mapType, readOnly, sizeOk,
                           FreeAddress(c), createOk)
        l == [CallRecord("map", c, displayIndex, Quiet(r.status))
                 EXCEPT !.outSize = SizeAfter(r.status, TRUE), !.sizeOk = sizeOk,
                        !.mapType = mapType, !.readOnly = readOnly,
                        !.created = r.created, !.outMap = r.map]
    IN  /\ m_memoryMaps' = [m_memoryMaps EXCEPT ![c] = r.maps]
        /\ last' = l
        /\ hist' = HistAfter(l, Device(displayIndex))
        /\ UNCHANGED <<m_framebuffers, m_clients, isInactive, uptime, locals>>

(* clientClose(): userClientClose(), then terminate().                     *)
ClientClose(c) ==
    LET r == UserClientClose(c)
        l == CallRecord("clientClose", c, 0, Quiet(kIOReturnSuccess))
    IN  /\ ~isInactive[c]
        /\ m_clients' = r.clients
        /\ m_memoryMaps' = [m_memoryMaps EXCEPT ![c] = r.maps]
        /\ m_framebuffers' = r.fbs
        /\ isInactive' = [isInactive EXCEPT ![c] = TRUE]
        /\ last' = l
        /\ hist' = HistAfter(l, r.fbs[0])
        /\ UNCHANGED <<uptime, locals>>

UCGetState(c, displayIndex, sizeOk) ==
    LET r == UserClientGetState(c, displayIndex, sizeOk)
        l == [CallRecord("getState", c, displayIndex, Quiet(r.status))
                 EXCEPT !.outSize = SizeAfter(r.status, TRUE), !.outState = r.state,
                        !.sizeOk = sizeOk]
    IN  /\ last' = l
        /\ hist' = HistAfter(l, Device(displayIndex))
        /\ UNCHANGED <<m_framebuffers, m_clients, isInactive, m_memoryMaps, uptime, locals>>

UCGetConfiguration(c, displayIndex, sizeOk) ==
    LET r == UserClientGetConfiguration(c, displayIndex, sizeOk)
        l == [CallRecord("getConfiguration", c, displayIndex, Quiet(r.status))
                 EXCEPT !.outSize = SizeAfter(r.status, TRUE), !.outConfig = r.config,
                        !.sizeOk = sizeOk]
    IN  /\ last' = l
        /\ hist' = HistAfter(l, Device(displayIndex))
        /\ UNCHANGED <<m_framebuffers, m_clients, isInactive, m_memoryMaps, uptime, locals>>

UCSetConfiguration(c, displayIndex, config, sizeOk) ==
    LET r == UserClientSetConfiguration(c, displayIndex, config, sizeOk)
        l == [CallRecord("setConfiguration", c, displayIndex, r)
                 EXCEPT !.config = config, !.sizeOk = sizeOk]
    IN  /\ m_framebuffers' = StoreFramebuffer(m_framebuffers, displayIndex, r.fb)
        /\ last' = l
        /\ hist' = HistAfter(l, r.fb)
        /\ UNCHANGED <<m_clients, isInactive, m_memoryMaps, uptime, locals>>

UCConnect(c, displayIndex) ==
    LET r == UserClientConnect(c, displayIndex)
        l == CallRecord("connect", c, displayIndex, r)
    IN  /\ CanCount(r)
        /\ m_framebuffers' = StoreFramebuffer(m_framebuffers, displayIndex, r.fb)
        /\ last' = l
        /\ hist' = HistAfter(l, r.fb)
        /\ UNCHANGED <<m_clients, isInactive, m_memoryMaps, uptime, locals>>

UCDisconnect(c, displayIndex) ==
    LET r == UserClientDisconnect(c, displayIndex)
        l == CallRecord("disconnect", c, displayIndex, r)
    IN  /\ CanCount(r)
        /\ m_framebuffers' = StoreFramebuffer(m_framebuffers, displayIndex, r.fb)
        /\ last' = l
        /\ hist' = HistAfter(l, r.fb)
        /\ UNCHANGED <<m_clients, isInactive, m_memoryMaps, uptime, locals>>

---------------------------------------------------------------------------
(* Calls of the host's display stack on the framebuffer of display d.      *)

HostCall(op, d, r, l) ==
    /\ m_framebuffers' = StoreFramebuffer(m_framebuffers, d, r.fb)
    /\ last' = l
    /\ hist' = HistAfter(l, r.fb)
    /\ UNCHANGED <<m_clients, isInactive, m_memoryMaps, uptime, locals>>

SetDisplayMode(d, displayMode, depth) ==
    LET r == FramebufferSetDisplayMode(m_framebuffers[d], displayMode, depth)
    IN  HostCall("setDisplayMode", d, r,
                 [CallRecord("setDisplayMode", NoClient, d, r)
                     EXCEPT !.displayMode = displayMode, !.depth = depth])

SetCursorImage(d, info) ==
    LET r == FramebufferSetCursorImage(m_framebuffers[d], info)
    IN  /\ m_framebuffers[d].m_cursorMemory.allocated
        /\ HostCall("setCursorImage", d, r,
                    [CallRecord("setCursorImage", NoClient, d, r) EXCEPT !.info = info])

SetCursorState(d, x, y, visible) ==
    LET r == FramebufferSetCursorState(m_framebuffers[d], x, y, visible)
    IN  /\ m_framebuffers[d].m_cursorMemory.allocated
        /\ HostCall("setCursorState", d, r,
                    [CallRecord("setCursorState", NoClient, d, r)
                        EXCEPT !.x = x, !.y = y, !.visible = visible])

RegisterForInterruptType(d, interruptType) ==
    LET r == FramebufferRegisterForInterruptType(m_framebuffers[d], interruptType)
    IN  HostCall("registerForInterruptType", d, r,
                 CallRecord("registerForInterruptType", NoClient, d, r))

(* unregisterInterrupt / setInterruptState with the reference that         *)
(* registerForInterruptType returned.                                      *)
UnregisterInterrupt(d, interruptRef) ==
    LET r == FramebufferUnregisterInterrupt(m_framebuffers[d], interruptRef)
    IN  /\ m_framebuffers[d].m_connectInterruptHandler.m_handler
        /\ HostCall("unregisterInterrupt", d, r,
                    CallRecord("unregisterInterrupt", NoClient, d, r))

SetInterruptState(d, interruptRef, state) ==
    LET r == FramebufferSetInterruptState(m_framebuffers[d], interruptRef, state)
    IN  /\ m_framebuffers[d].m_connectInterruptHandler.m_handler
        /\ HostCall("setInterruptState", d, r,
                    CallRecord("setInterruptState", NoClient, d, r))

(* The display state machine as the sessions and the host drive it. The   *)
(* termination of a user client and the disabling and removal of an        *)
(* interrupt handler are not steps of this specification.                  *)
Next ==
    \/ \E c \in Clients, sizeOk \in BOOLEAN : UCOpen(c, sizeOk)
    \/ \E c \in Clients : UCClose(c)
    \/ \E c \in Clients, i \in DisplayIndexArgs, sizeOk \in BOOLEAN : UCGetState(c, i, sizeOk)
    \/ \E c \in Clients, i \in DisplayIndexArgs, sizeOk \in BOOLEAN :
          UCGetConfiguration(c, i, sizeOk)
    \/ \E c \in Clients, a \in SetConfigurationArgs : UCSetConfiguration(c, a[1], a[2], a[3])
    \/ \E c \in Clients, i \in DisplayIndexArgs : UCConnect(c, i)
    \/ \E c \in Clients, i \in DisplayIndexArgs : UCDisconnect(c, i)
    \/ \E d \in Displays, a \in SetDisplayModeArgs : SetDisplayMode(d, a[1], a[2])
    \/ \E d \in Displays : RegisterForInterruptType(d, kIOFBConnectInterruptType)

Spec == Init /\ [][Next]_vars

---------------------------------------------------------------------------
(* Sessions and their mappings: the clients open, map, close and           *)
(* terminate while a display is configured, connected and disconnected.    *)
(* enableController may have failed to allocate the shared memory.         *)

AllocOutcomes == {<<TRUE, TRUE>>, <<FALSE, TRUE>>, <<TRUE, FALSE>>}

SessionInit ==
    /\ DisplaysStarted({kDisplayXFBMinVRAMSize}, AllocOutcomes)
    /\ m_clients = [i \in 0 .. (kDisplayXFBMaxClients - 1) |-> NoClient]
    /\ isInactive = [c \in Clients |-> FALSE]
    /\ m_memoryMaps = [c \in Clients |-> NoMemoryMaps]
    /\ uptime = 0
    /\ last = CallRecord("start", NoClient, 0, Quiet(kIOReturnSuccess))
    /\ hist = [flagChanges |-> 0, notifications |-> 0, scenario |-> 0]
    /\ locals = NoLocals

(* <<displayIndex, mapType, readOnly, structure size is sizeof(map),       *)
(* createMappingInTask succeeds>>.                                         *)
SessionMapArgs ==
    {<<0, kDisplayXFBMapTypeDisplay, FALSE, TRUE, TRUE>>,
     <<0, kDisplayXFBMapTypeCursor, FALSE, TRUE, TRUE>>,
     <<0, kDisplayXFBMapTypeDisplay, FALSE, TRUE, FALSE>>}

SessionNext ==
    \/ \E c \in Clients : UCOpen(c, TRUE)
    \/ \E c \in Clients : UCClose(c)
    \/ \E c \in Clients : ClientClose(c)
    \/ \E c \in Clients, a \in SessionMapArgs : UCMap(c, a[1], a[2], a[3], a[4], a[5])
    \/ \E c \in Clients : UCSetConfiguration(c, 0, CfgScenario, TRUE)
    \/ \E c \in Clients : UCConnect(c, 0)
    \/ \E c \in Clients : UCDisconnect(c, 0)
    \/ \E d \in Displays : SetDisplayMode(d, 2, 0)

SessionSpec == SessionInit /\ [][SessionNext]_vars

---------------------------------------------------------------------------
(* The tests the protocol methods make on their arguments and on the       *)
(* session: calls with structures of the wrong size, from sessions that    *)
(* are not open or are terminated, for displays that do not exist, with    *)
(* content that is turned down.                                            *)

MapArgs ==
    SessionMapArgs
        \cup {<<0, kDisplayXFBMapTypeDisplay, FALSE, FALSE, TRUE>>,
              <<0, kDisplayXFBMaxMapTypes, FALSE, TRUE, TRUE>>,
              <<m_displayCount, kDisplayXFBMapTypeDisplay, FALSE, TRUE, TRUE>>}

(* <<displayIndex, structure size is sizeof(state) or sizeof(config)>>.    *)
GetArgs == {<<0, TRUE>>, <<0, FALSE>>, <<m_displayCount, TRUE>>}

DispatchConfigurationArgs ==
    {<<0, CfgDefaultOutOfRange, TRUE>>, <<0, CfgBadMagic, TRUE>>, <<0, CfgScenario, FALSE>>,
     <<m_displayCount, CfgScenario, TRUE>>}

DispatchNext ==
    \/ \E c \in Clients, sizeOk \in BOOLEAN : UCOpen(c, sizeOk)
    \/ \E c \in Clients : UCClose(c)
    \/ \E c \in Clients : ClientClose(c)
    \/ \E c \in Clients, a \in MapArgs : UCMap(c, a[1], a[2], a[3], a[4], a[5])
    \/ \E c \in Clients, a \in GetArgs : UCGetState(c, a[1], a[2])
    \/ \E c \in Clients, a \in GetArgs : UCGetConfiguration(c, a[1], a[2])
    \/ \E c \in Clients, a \in DispatchConfigurationArgs :
          UCSetConfiguration(c, a[1], a[2], a[3])
    \/ \E c \in Clients, i \in DisplayIndexArgs : UCConnect(c, i)
    \/ \E c \in Clients, i \in DisplayIndexArgs : UCDisconnect(c, i)

DispatchSpec == SessionInit /\ [][DispatchNext]_vars

---------------------------------------------------------------------------
(* Read-only and read-write map requests of one session, in any order.     *)

(* <<mapType, readOnly>>.                                                  *)
ReadOnlyMapArgs == {kDisplayXFBMapTypeDisplay, kDisplayXFBMapTypeCursor} \X BOOLEAN

ReadOnlyNext ==
    \/ \E c \in Clients : UCOpen(c, TRUE)
    \/ \E c \in Clients : UCClose(c)
    \/ \E c \in Clients, a \in ReadOnlyMapArgs : UCMap(c, 0, a[1], a[2], TRUE, TRUE)

ReadOnlySpec == Init /\ [][ReadOnlyNext]_vars

---------------------------------------------------------------------------
(* A driver whose property list asks for two displays: both framebuffers   *)
(* started and enabled, one session open, and the calls of the client and  *)
(* of the host addressed to either display.                                *)

TwoDisplays == {0, 1}

TwoDisplaysInit ==
    /\ m_framebuffers =
          [i \in 0 .. (kDisplayXFBMaxDisplays - 1) |->
              IF i \in TwoDisplays
              THEN FramebufferEnableController(
                       FramebufferStart(i, kDisplayXFBMinVRAMSize, TRUE), TRUE, TRUE).fb
              ELSE NoFramebuffer]
    /\ m_clients = [i \in 0 .. (kDisplayXFBMaxClients - 1) |-> IF i = 0 THEN 1 ELSE NoClient]
    /\ isInactive = [c \in Clients |-> FALSE]
    /\ m_memoryMaps = [c \in Clients |-> NoMemoryMaps]
    /\ uptime = 0
    /\ last = CallRecord("start", NoClient, 0, Quiet(kIOReturnSuccess))
    /\ hist = [flagChanges |-> 0, notifications |-> 0, scenario |-> 0]
    /\ locals = NoLocals

TwoDisplaysNext ==
    \/ \E c \in Clients, i \in TwoDisplays : UCSetConfiguration(c, i, CfgScenario, TRUE)
    \/ \E c \in Clients, i \in TwoDisplays : UCConnect(c, i)
    \/ \E c \in Clients, i \in TwoDisplays : UCDisconnect(c, i)
    \/ \E c \in Clients, i \in TwoDisplays : UCGetState(c, i, TRUE)
    \/ \E c \in Clients, i \in TwoDisplays :
          UCMap(c, i, kDisplayXFBMapTypeDisplay, TRUE, TRUE, TRUE)
    \/ \E d \in TwoDisplays : SetDisplayMode(d, 2, 0)
    \/ \E d \in TwoDisplays : SetCursorState(d, 10, 20, TRUE)

TwoDisplaysSpec == TwoDisplaysInit /\ [][TwoDisplaysNext]_vars

---------------------------------------------------------------------------
(* DisplayXFBDriver::start() with nubs that fail. For each of the two      *)
(* displays asked for, the loop allocates, initialises and attaches a      *)
(* framebuffer, stores it in m_framebuffers[index] and then starts it. A   *)
(* failure before the store leaves the entry zero; a failure of the        *)
(* nub's start() comes after the store, and the entry is not cleared.      *)
(* m_displayCount stays at the number asked for in either case.            *)

NubOutcomes == {"started", "notAttached", "notStarted"}

(* A framebuffer whose start() returned at the failure of super::start():  *)
(* the members as the constructor left them, that is a configuration       *)
(* without modes, an invalidated state, and zero elsewhere. It stays       *)
(* attached, which keeps it alive after the driver's release().            *)
FramebufferConstruct(index) ==
    [FramebufferStart(index, 0, FALSE) EXCEPT
        !.m_configuration = ConfigInitialise(<<>>),
        !.m_state = StateConstruct]

StartInit ==
    /\ \E nubs \in [TwoDisplays -> NubOutcomes] :
          /\ m_framebuffers =
                [i \in 0 .. (kDisplayXFBMaxDisplays - 1) |->
                    IF i \notin TwoDisplays \/ nubs[i] = "notAttached" THEN NoFramebuffer
                    ELSE IF nubs[i] = "notStarted" THEN FramebufferConstruct(i)
                    ELSE FramebufferEnableController(
                             FramebufferStart(i, kDisplayXFBMinVRAMSize, TRUE), TRUE, TRUE).fb]
          /\ locals = [pc |-> "driver", nubs |-> nubs]
    /\ m_clients = [i \in 0 .. (kDisplayXFBMaxClients - 1) |-> NoClient]
    /\ isInactive = [c \in Clients |-> FALSE]
    /\ m_memoryMaps = [c \in Clients |-> NoMemoryMaps]
    /\ uptime = 0
    /\ last = CallRecord("start", NoClient, 0, Quiet(kIOReturnSuccess))
    /\ hist = [flagChanges |-> 0, notifications |-> 0, scenario |-> 0]

(* Display indices a client tries: those of the displays and one more.     *)
StartIndexArgs == TwoDisplays \cup {Cardinality(TwoDisplays)}

StartNext ==
    \/ \E c \in Clients : UCOpen(c, TRUE)
    \/ \E c \in Clients, i \in StartIndexArgs : UCGetState(c, i, TRUE)
    \/ \E c \in Clients, i \in StartIndexArgs : UCConnect(c, i)
    \/ \E c \in Clients, i \in StartIndexArgs : UCDisconnect(c, i)

StartSpec == StartInit /\ [][StartNext]_vars

---------------------------------------------------------------------------
(* The session pool: one client more than the driver has slots. Some       *)
(* sessions are open already, opened in the order of the clients, and the  *)
(* first of them holds a mapping of display 0. Every call takes one unit   *)
(* of the clock.                                                           *)

PoolClients == 1 .. (kDisplayXFBMaxClients + 1)

PoolOpened == (kDisplayXFBMaxClients - 2) .. kDisplayXFBMaxClients

HeldMaps ==
    [NoMemoryMaps EXCEPT ![<<0, kDisplayXFBMapTypeDisplay>>] =
        [address |-> 1, length |-> kDisplayXFBMinVRAMSize, readOnly |-> TRUE]]

PoolInit ==
    /\ DisplaysStarted({kDisplayXFBMinVRAMSize}, {<<TRUE, TRUE>>})
    /\ \E k \in PoolOpened :
          m_clients = [i \in 0 .. (kDisplayXFBMaxClients - 1) |->
                          IF i < k THEN i + 1 ELSE NoClient]
    /\ isInactive = [c \in PoolClients |-> FALSE]
    /\ m_memoryMaps = [c \in PoolClients |-> IF c = 1 THEN HeldMaps ELSE NoMemoryMaps]
    /\ uptime = 0
    /\ last = CallRecord("start", NoClient, 0, Quiet(kIOReturnSuccess))
    /\ hist = [flagChanges |-> 0, notifications |-> 0, scenario |-> 0]
    /\ locals = NoLocals

PoolOpen(c, sizeOk) ==
    /\ uptime < MaxPoolCalls
    /\ OpenSession(c, sizeOk)
    /\ uptime' = uptime + 1

PoolClose(c) ==
    /\ uptime < MaxPoolCalls
    /\ CloseSession(c)
    /\ uptime' = uptime + 1

PoolNext ==
    \/ \E c \in PoolClients, sizeOk \in BOOLEAN : PoolOpen(c, sizeOk)
    \/ \E c \in PoolClients : PoolClose(c)

PoolSpec == PoolInit /\ [][PoolNext]_vars

---------------------------------------------------------------------------
(* makeState() called by a client on a configuration it has filled in, for *)
(* a mode index of its choosing, on a fresh state or on one it used before. *)

(* kMaxModes modes: mode i is (320 + 8i) x (200 + i).                      *)
CfgFull ==
    [ConfigInitialise(TestName) EXCEPT
        !.m_modeCount = kMaxModes,
        !.m_modes = [i \in 0 .. (kMaxModes - 1) |-> ModeInitialise(320 + 8 * i, 200 + i)]]

MakeStateConfigurations == ClientConfigurations \cup {CfgFull}

MakeStateIndices == {0, 1, 2, kMaxModes - 1, kMaxModes, kMaxModes + 1}

MakeStateOffsets == {0, 4096}

(* A state left by an earlier makeState, setMode and setIsConnected.       *)
UsedState ==
    SetIsConnected(StateSetMode(MakeState(CfgScenario, StateConstruct, 0, 0),
                                Mode(CfgScenario, 1), 1), TRUE)

MakeStateInit ==
    /\ DriverStart
    /\ \E cfg \in MakeStateConfigurations, idx \in MakeStateIndices,
          off \in MakeStateOffsets, st \in {StateConstruct, UsedState} :
          locals = [pc |-> "call", cfg |-> cfg, modeIndex |-> idx, offset |-> off,
                    state |-> st, ok |-> FALSE]

CallMakeState ==
    /\ locals.pc = "call"
    /\ locals' = [locals EXCEPT
          !.pc = "done",
          !.state = MakeState(locals.cfg, locals.state, locals.modeIndex, locals.offset),
          !.ok = MakeStateReturn(locals.cfg, locals.state, locals.modeIndex, locals.offset)]
    /\ UNCHANGED <<m_framebuffers, m_clients, isInactive, m_memoryMaps, uptime, last, hist>>

MakeStateNext == CallMakeState

MakeStateSpec == MakeStateInit /\ [][MakeStateNext]_vars

---------------------------------------------------------------------------
(* DisplayXFBTiming on its own: start() and update() called while the      *)
(* uptime clock moves. The clock is the caller's input: it advances by     *)
(* the steps below and, for the guard update() has against it, steps       *)
(* back. locals holds the timing object, the last call and its results.    *)

(* Periods passed to start(), in microseconds.                             *)
TimingPeriods == {0, 1000, 2000}

(* Clock steps, in nanoseconds.                                            *)
TimingSteps == {1, 950000, 1000000, 3000000}

(* The number of clock steps in a behaviour.                               *)
MaxClockSteps == 3

TimingInit ==
    /\ DriverStart
    /\ locals = [pc |-> "timing", call |-> "construct", timing |-> TimingConstruct,
                 period |-> 0, startedAt |-> 0, polled |-> FALSE, back |-> FALSE,
                 steps |-> 0, pre |-> TimingConstruct, at |-> 0,
                 ticks |-> 0, timeToNextTick |-> 0]

TimingCallStart(period) ==
    /\ locals.pc = "timing"
    /\ locals' = [locals EXCEPT !.call = "start",
                                !.timing = TimingStart(period, uptime),
                                !.period = period, !.startedAt = uptime,
                                !.polled = FALSE, !.back = FALSE]
    /\ UNCHANGED <<m_framebuffers, m_clients, isInactive, m_memoryMaps, uptime, last, hist>>

TimingCallUpdate ==
    /\ locals.pc = "timing"
    /\ locals.call # "update"
    /\ LET r == TimingUpdate(locals.timing, uptime)
       IN  locals' = [locals EXCEPT !.call = "update",
                                    !.timing = r.timing,
                                    !.pre = locals.timing, !.at = uptime,
                                    !.polled = (locals.call = "polled") \/ locals.polled,
                                    !.ticks = r.ticks,
                                    !.timeToNextTick = r.timeToNextTick]
    /\ UNCHANGED <<m_framebuffers, m_clients, isInactive, m_memoryMaps, uptime, last, hist>>

(* The caller does something else after a poll.                             *)
TimingReturn ==
    /\ locals.pc = "timing"
    /\ locals.call = "update"
    /\ locals' = [locals EXCEPT !.call = "polled"]
    /\ UNCHANGED <<m_framebuffers, m_clients, isInactive, m_memoryMaps, uptime, last, hist>>

ClockAdvance(d) ==
    /\ locals.pc = "timing"
    /\ locals.call # "update"
    /\ locals.steps < MaxClockSteps
    /\ uptime' = uptime + d
    /\ locals' = [locals EXCEPT !.steps = @ + 1]
    /\ UNCHANGED <<m_framebuffers, m_clients, isInactive, m_memoryMaps, last, hist>>

ClockBack(d) ==
    /\ locals.pc = "timing"
    /\ locals.call # "update"
    /\ locals.steps < MaxClockSteps
    /\ uptime >= d
    /\ uptime' = uptime - d
    /\ locals' = [locals EXCEPT !.steps = @ + 1, !.back = TRUE]
    /\ UNCHANGED <<m_framebuffers, m_clients, isInactive, m_memoryMaps, last, hist>>

TimingNext ==
    \/ \E period \in TimingPeriods : TimingCallStart(period)
    \/ TimingCallUpdate
    \/ TimingReturn
    \/ \E d \in TimingSteps : ClockAdvance(d)
    \/ \E d \in {1, 1000000} : ClockBack(d)

TimingSpec == TimingInit /\ [][TimingNext]_vars

---------------------------------------------------------------------------
(* DisplayXFBMode on its own: setWidth, setHeight and initialise called on *)
(* a default-constructed mode with a width and a height of the caller's    *)
(* choosing (unsigned values; the largest tried is 2^31 - 1).              *)

ModeWidths ==
    {0, 7, 8, 319, 320, 321, 327, 328, 1280, 1283, 8191, 8192, 8193, 8200, 2147483647}

ModeHeights == {0, 199, 200, 201, 800, 8191, 8192, 8193, 2147483647}

ModeInit ==
    /\ DriverStart
    /\ \E w \in ModeWidths, h \in ModeHeights :
          locals = [pc |-> "mode", call |-> "construct", w |-> w, h |-> h,
                    mode |-> ModeDefault, ret |-> TRUE]

ModeCall(call, mode, ret) ==
    /\ locals.pc = "mode"
    /\ locals.call = "construct"
    /\ locals' = [locals EXCEPT !.call = call, !.mode = mode, !.ret = ret]
    /\ UNCHANGED <<m_framebuffers, m_clients, isInactive, m_memoryMaps, uptime, last, hist>>

(* return m_width == w, return m_height == h, return wok && wol.           *)
CallSetWidth ==
    ModeCall("setWidth", [locals.mode EXCEPT !.m_width = SetWidth(locals.w)],
             SetWidth(locals.w) = locals.w)

CallSetHeight ==
    ModeCall("setHeight", [locals.mode EXCEPT !.m_height = SetHeight(locals.h)],
             SetHeight(locals.h) = locals.h)

CallInitialise ==
    ModeCall("initialise", ModeInitialise(locals.w, locals.h),
             SetWidth(locals.w) = locals.w /\ SetHeight(locals.h) = locals.h)

ModeNext == CallSetWidth \/ CallSetHeight \/ CallInitialise

ModeSpec == ModeInit /\ [][ModeNext]_vars

---------------------------------------------------------------------------
(* The host's setDisplayMode against a client's get-state. The host calls  *)
(* the framebuffer on its own thread and the client's calls arrive on the  *)
(* client's; neither takes a lock, so the two stores of                    *)
(* DisplayXFBState::setMode (m_modeIndex, then m_mode) may have the copy   *)
(* "*state = m_state" of get-state between them. locals holds the host's   *)
(* position: the index it stored and the state as it was before.           *)

(* setDisplayMode up to and including the store of m_modeIndex.            *)
SetModeStoreIndex(d, displayMode, depth) ==
    /\ locals.pc = "none"
    /\ depth = 0 /\ displayMode >= 1
    /\ displayMode - 1 < ModeCount(m_framebuffers[d].m_configuration)
    /\ m_framebuffers' = [m_framebuffers EXCEPT ![d].m_state.m_modeIndex = displayMode - 1]
    /\ locals' = [pc |-> "setMode", displayMode |-> displayMode, depth |-> depth,
                  before |-> m_framebuffers[d]]
    /\ UNCHANGED <<m_clients, isInactive, m_memoryMaps, uptime, last, hist>>

(* The store of m_mode through the reference into m_configuration, and     *)
(* the notification.                                                       *)
SetModeStoreMode(d) ==
    /\ locals.pc = "setMode"
    /\ LET mi == locals.displayMode - 1
           r == Outcome([m_framebuffers[d] EXCEPT
                            !.m_state.m_mode = Mode(m_framebuffers[d].m_configuration, mi)],
                        kIOReturnSuccess,
                        SendNotification(kDisplayXFBNotificationDisplayState,
                                         m_framebuffers[d].m_displayIndex),
                        0, 0)
           l == [CallRecord("setDisplayMode", NoClient, d, r)
                    EXCEPT !.displayMode = locals.displayMode, !.depth = locals.depth,
                           !.pre = locals.before]
       IN  /\ m_framebuffers' = StoreFramebuffer(m_framebuffers, d, r.fb)
           /\ last' = l
           /\ hist' = HistAfter(l, r.fb)
    /\ locals' = NoLocals
    /\ UNCHANGED <<m_clients, isInactive, m_memoryMaps, uptime>>

RaceNext ==
    \/ \E c \in Clients : UCOpen(c, TRUE)
    \/ \E c \in Clients : UCSetConfiguration(c, 0, CfgScenario, TRUE)
    \/ \E c \in Clients : UCConnect(c, 0)
    \/ \E c \in Clients : UCDisconnect(c, 0)
    \/ \E c \in Clients : UCGetState(c, 0, TRUE)
    \/ \E d \in Displays, displayMode \in 1 .. 2 : SetModeStoreIndex(d, displayMode, 0)
    \/ \E d \in Displays : SetModeStoreMode(d)

RaceSpec == Init /\ [][RaceNext]_vars

---------------------------------------------------------------------------
(* The vblank timer. The timer source runs vblankEventHandler on the       *)
(* framebuffer's own work loop once the armed timeout has expired; the     *)
(* handler tests m_vblankTimerIsEnabled and then polls the timing object,  *)
(* arms the next timeout and fires the vblank interrupt. Connect and       *)
(* disconnect run on the calling client's thread and take no lock, so      *)
(* they may run between the handler's test and the rest of it. locals      *)
(* holds the handler's position and what its last run did.                 *)

VblankIdle ==
    [pc |-> "idle", call |-> "none", steps |-> 0, connected |-> FALSE,
     ticks |-> 0, timeToNextTick |-> 0, fires |-> 0, delivered |-> 0]

(* Clock steps, in nanoseconds, around the 16666 us period of the default  *)
(* refresh rate: a period, a period less 32 us, a period less 500 us, two  *)
(* periods.                                                                *)
VblankSteps == {16666000, 16634000, 16166000, 33332000}

VblankInit ==
    /\ \E present \in BOOLEAN :
          m_framebuffers =
              [i \in 0 .. (kDisplayXFBMaxDisplays - 1) |->
                  IF i \in Displays
                  THEN FramebufferEnableController(
                           FramebufferStart(i, kDisplayXFBMinVRAMSize, present),
                           TRUE, TRUE).fb
                  ELSE NoFramebuffer]
    /\ m_clients = [i \in 0 .. (kDisplayXFBMaxClients - 1) |-> IF i = 0 THEN 1 ELSE NoClient]
    /\ isInactive = [c \in Clients |-> FALSE]
    /\ m_memoryMaps = [c \in Clients |-> NoMemoryMaps]
    /\ uptime = 0
    /\ last = CallRecord("start", NoClient, 0, Quiet(kIOReturnSuccess))
    /\ hist = [flagChanges |-> 0, notifications |-> 0, scenario |-> 0]
    /\ locals = VblankIdle

VblankClockAdvance(d) ==
    /\ locals.steps < MaxClockSteps
    /\ uptime' = uptime + d
    /\ locals' = [locals EXCEPT !.steps = @ + 1]
    /\ UNCHANGED <<m_framebuffers, m_clients, isInactive, m_memoryMaps, last, hist>>

(* The timeout of display d expires and the handler makes its test.        *)
VblankHandlerEnter(d) ==
    /\ locals.pc = "idle"
    /\ m_framebuffers[d].m_vblankTimerEventSource.armed
    /\ uptime >= m_framebuffers[d].m_vblankTimerEventSource.deadline
    /\ m_framebuffers' =
          [m_framebuffers EXCEPT ![d].m_vblankTimerEventSource.armed = FALSE]
    /\ locals' = IF m_framebuffers[d].m_vblankTimerIsEnabled
                 THEN [locals EXCEPT !.pc = "enabled", !.call = "enter"]
                 ELSE [locals EXCEPT !.call = "skip"]
    /\ UNCHANGED <<m_clients, isInactive, m_memoryMaps, uptime, last, hist>>

(* The rest of the handler.                                                *)
VblankHandlerPoll(d) ==
    /\ locals.pc = "enabled"
    /\ LET r == VblankEventHandler(m_framebuffers[d], uptime)
       IN  /\ m_framebuffers' = StoreFramebuffer(m_framebuffers, d, r.fb)
           /\ locals' = [locals EXCEPT !.pc = "idle", !.call = "poll",
                                       !.connected = IsConnected(m_framebuffers[d].m_state),
                                       !.ticks = r.ticks,
                                       !.timeToNextTick = r.timeToNextTick,
                                       !.fires = r.fires, !.delivered = r.delivered]
    /\ UNCHANGED <<m_clients, isInactive, m_memoryMaps, uptime, last, hist>>

VblankNext ==
    \/ \E c \in Clients : UCConnect(c, 0)
    \/ \E c \in Clients : UCDisconnect(c, 0)
    \/ \E d \in Displays : RegisterForInterruptType(d, kIOFBVBLInterruptType)
    \/ \E d \in VblankSteps : VblankClockAdvance(d)
    \/ \E d \in Displays : VblankHandlerEnter(d)
    \/ \E d \in Displays : VblankHandlerPoll(d)

VblankSpec == VblankInit /\ [][VblankNext]_vars

---------------------------------------------------------------------------
(* The vblank chain without a horizon. Time is measured from the present:  *)
(* uptime stays 0 and the passing of time to the expiry of the armed       *)
(* timeout is taken off m_nextTick and the deadline, which the code only   *)
(* ever compares with the clock. The host has registered its vblank        *)
(* handler and a session is open. A client's disconnect may overlap a      *)
(* connect issued from another of its threads, as no lock is taken:        *)
(* vblankEventEnable(false) is split between its store of                  *)
(* m_vblankTimerIsEnabled and its cancelTimeout(). locals holds the        *)
(* handler's position (as in VblankSpec) and the disconnect's.             *)

LiveIdle ==
    [pc |-> "idle", call |-> "none", steps |-> 0, connected |-> FALSE,
     ticks |-> 0, timeToNextTick |-> 0, fires |-> 0, delivered |-> 0, thread |-> "none"]

(* How long after its deadline, in ns, the timer's action is run.          *)
LiveLateness == {0, 32000, 500000, 16666000}

LiveInit ==
    /\ m_framebuffers =
          [i \in 0 .. (kDisplayXFBMaxDisplays - 1) |->
              IF i \in Displays
              THEN FramebufferRegisterForInterruptType(
                       FramebufferEnableController(
                           FramebufferStart(i, kDisplayXFBMinVRAMSize, TRUE), TRUE, TRUE).fb,
                       kIOFBVBLInterruptType).fb
              ELSE NoFramebuffer]
    /\ m_clients = [i \in 0 .. (kDisplayXFBMaxClients - 1) |-> IF i = 0 THEN 1 ELSE NoClient]
    /\ isInactive = [c \in Clients |-> FALSE]
    /\ m_memoryMaps = [c \in Clients |-> NoMemoryMaps]
    /\ uptime = 0
    /\ last = CallRecord("start", NoClient, 0, Quiet(kIOReturnSuccess))
    /\ hist = [flagChanges |-> 0, notifications |-> 0, scenario |-> 0]
    /\ locals = LiveIdle

(* The armed timeout of display d expires, late by the given time, and the *)
(* handler makes its test of m_vblankTimerIsEnabled.                       *)
LiveExpire(d, late) ==
    /\ locals.pc = "idle"
    /\ m_framebuffers[d].m_vblankTimerEventSource.armed
    /\ LET elapsed == m_framebuffers[d].m_vblankTimerEventSource.deadline + late
       IN  m_framebuffers' =
               [m_framebuffers EXCEPT
                   ![d].m_vblankTiming.m_nextTick = @ - elapsed,
                   ![d].m_vblankTimerEventSource.armed = FALSE,
                   ![d].m_vblankTimerEventSource.deadline = 0 - late]
    /\ locals' = IF m_framebuffers[d].m_vblankTimerIsEnabled
                 THEN [locals EXCEPT !.pc = "enabled", !.call = "enter"]
                 ELSE [locals EXCEPT !.call = "skip"]
    /\ UNCHANGED <<m_clients, isInactive, m_memoryMaps, uptime, last, hist>>

(* userClientDisconnect of a connected display up to the store of          *)
(* m_vblankTimerIsEnabled in vblankEventEnable(false).                     *)
LiveDisconnectStore(c, d) ==
    /\ locals.thread = "none"
    /\ ~isInactive[c] /\ IsOpen(c)
    /\ IsConnected(m_framebuffers[d].m_state)
    /\ m_framebuffers[d].m_vblankTimerEventSource.present
    /\ m_framebuffers[d].m_vblankTimerIsEnabled
    /\ hist.flagChanges < MaxEvents
    /\ m_framebuffers' =
          [m_framebuffers EXCEPT ![d].m_state = SetIsConnected(@, FALSE),
                                 ![d].m_vblankTimerIsEnabled = FALSE]
    /\ locals' = [locals EXCEPT !.thread = "cancel"]
    /\ UNCHANGED <<m_clients, isInactive, m_memoryMaps, uptime, last, hist>>

(* The rest of it: cancelTimeout(), the notification and the connect       *)
(* interrupt.                                                              *)
LiveDisconnectCancel(c, d) ==
    /\ locals.thread = "cancel"
    /\ LET fb == [m_framebuffers[d] EXCEPT
                     !.m_vblankTimerEventSource =
                         [present |-> TRUE, armed |-> FALSE, timeoutUS |-> 0, deadline |-> 0]]
           r == Outcome(fb, kIOReturnSuccess,
                        SendNotification(kDisplayXFBNotificationDisplayState, fb.m_displayIndex),
                        1, HandlerFire(fb.m_connectInterruptHandler))
       IN  /\ m_framebuffers' = StoreFramebuffer(m_framebuffers, d, r.fb)
           /\ last' = CallRecord("disconnect", c, d, r)
    /\ locals' = [locals EXCEPT !.thread = "none"]
    /\ UNCHANGED <<m_clients, isInactive, m_memoryMaps, uptime, hist>>

LiveNext ==
    \/ \E c \in Clients : UCConnect(c, 0)
    \/ \E c \in Clients : LiveDisconnectStore(c, 0)
    \/ \E c \in Clients : LiveDisconnectCancel(c, 0)
    \/ \E late \in LiveLateness : LiveExpire(0, late)
    \/ VblankHandlerPoll(0)

(* Every armed timeout expires, and the handler and a disconnect that have *)
(* begun run to their end.                                                 *)
LiveSpec ==
    /\ LiveInit /\ [][LiveNext]_vars
    /\ WF_vars(\E late \in LiveLateness : LiveExpire(0, late))
    /\ WF_vars(VblankHandlerPoll(0))
    /\ WF_vars(\E c \in Clients : LiveDisconnectCancel(c, 0))

(* The same with the client's calls one after the other: no connect while  *)
(* a disconnect is in progress.                                            *)
LiveSerialNext ==
    \/ \E c \in Clients : locals.thread = "none" /\ UCConnect(c, 0)
    \/ \E c \in Clients : LiveDisconnectStore(c, 0)
    \/ \E c \in Clients : LiveDisconnectCancel(c, 0)
    \/ \E late \in LiveLateness : LiveExpire(0, late)
    \/ VblankHandlerPoll(0)

LiveSerialSpec ==
    /\ LiveInit /\ [][LiveSerialNext]_vars
    /\ WF_vars(\E late \in LiveLateness : LiveExpire(0, late))
    /\ WF_vars(VblankHandlerPoll(0))
    /\ WF_vars(\E c \in Clients : LiveDisconnectCancel(c, 0))

---------------------------------------------------------------------------
(* The hardware cursor: the host's setCursorImage and setCursorState       *)
(* calls on a display that a client connects and disconnects.              *)

CursorImages ==
    {NotConverted, Converted(TRUE, 0, 0, 16, 16),
     Converted(TRUE, 3, 4, kCursorMaxWidth, kCursorMaxHeight)}

(* <<x, y, visible>>; negative positions are legal.                        *)
CursorStates == {<<0 - 1, 0, TRUE>>, <<5, 7, TRUE>>, <<5, 7, FALSE>>}

CursorNext ==
    \/ \E c \in Clients : UCOpen(c, TRUE)
    \/ \E c \in Clients : UCConnect(c, 0)
    \/ \E c \in Clients : UCDisconnect(c, 0)
    \/ \E d \in Displays, info \in CursorImages : SetCursorImage(d, info)
    \/ \E d \in Displays, a \in CursorStates : SetCursorState(d, a[1], a[2], a[3])

CursorSpec == Init /\ [][CursorNext]_vars

---------------------------------------------------------------------------
(* Properties. They are stated on `last', the record of the most recent    *)
(* call, on the display it addressed as it is now, and on `hist'.          *)

(* The display the last call addressed, as it is now.                      *)
Live == m_framebuffers[last.displayIndex]

(* The last call came from an open session, with a structure of the right  *)
(* size, for a display that exists.                                        *)
Served == last.session = "open" /\ last.sizeOk /\ last.pre.nub

SameConfigurationAndState ==
    /\ Live.m_configuration = last.pre.m_configuration
    /\ Live.m_state = last.pre.m_state

SameTimer ==
    /\ Live.m_vblankTimerIsEnabled = last.pre.m_vblankTimerIsEnabled
    /\ Live.m_vblankTimerEventSource = last.pre.m_vblankTimerEventSource
    /\ Live.m_vblankPeriodUS = last.pre.m_vblankPeriodUS
    /\ Live.m_vblankTiming = last.pre.m_vblankTiming

Silent == last.notifications = <<>> /\ last.connectFires = 0 /\ last.connectDelivered = 0

SetConfigurationWhileConnected ==
    last.op = "setConfiguration" /\ Served /\ IsConnected(last.pre.m_state)

SetConfigurationWhileDisconnected ==
    last.op = "setConfiguration" /\ Served /\ ~IsConnected(last.pre.m_state)

(* Mode i of config: its computed frame size plus the frame padding is     *)
(* above vramSize; it is below the minimum size.                           *)
ExceedsVRAM(config, i, vramSize) ==
    GtW(AddW(BytesPerFrame(MakeState(config, StateConstruct, i, 0)), ToW(kFramePadding)),
        ToW(vramSize))

BelowMinimum(config, i) ==
    Mode(config, i).m_width < kDisplayXFBMinWidth \/ Mode(config, i).m_height < kDisplayXFBMinHeight

(* C1, as the spec states it: a set-configuration issued while the display *)
(* is connected fails with Busy, whatever the configuration, and leaves    *)
(* the configuration and state as they were.                               *)
C1_BusyForEveryArgument ==
    SetConfigurationWhileConnected =>
        last.status = kIOReturnBusy /\ SameConfigurationAndState

(* C1, amended: a set-configuration issued while the display is connected  *)
(* always fails and leaves the configuration and state as they were; it    *)
(* fails with Busy when the configuration is valid and has a mode, and     *)
(* with BadArgument when it is invalid or has no mode.                     *)
C1_RejectedWhileConnected ==
    SetConfigurationWhileConnected =>
        /\ last.status =
              (IF ConfigIsValid(last.config) /\ ModeCount(last.config) > 0
               THEN kIOReturnBusy ELSE kIOReturnBadArgument)
        /\ SameConfigurationAndState

C1_Witness ==
    /\ SetConfigurationWhileConnected
    /\ last.status = kIOReturnBusy
    /\ last.config # last.pre.m_configuration

(* C2: connect() on a connected display returns NotPermitted; the          *)
(* configuration, the state and the vblank timer are as before, no connect *)
(* interrupt is raised and no notification is sent.                        *)
C2_ConnectWhenConnected ==
    (last.op = "connect" /\ Served /\ IsConnected(last.pre.m_state)) =>
        /\ last.status = kIOReturnNotPermitted
        /\ SameConfigurationAndState
        /\ SameTimer
        /\ Silent

C2_Witness ==
    /\ last.op = "connect" /\ Served /\ IsConnected(last.pre.m_state)
    /\ last.status = kIOReturnNotPermitted
    /\ Live.m_vblankTimerIsEnabled

C4_ModesFitVRAM ==
    /\ \A d \in Displays :
          \A i \in 0 .. (kMaxModes - 1) :
              i < ModeCount(m_framebuffers[d].m_configuration) =>
                  ~ExceedsVRAM(m_framebuffers[d].m_configuration, i, m_framebuffers[d].m_vramSize)
    /\ (last.op = "setConfiguration" /\ last.status = kIOReturnSuccess) =>
          \A i \in 0 .. (kMaxModes - 1) :
              i < ModeCount(last.config) => ~ExceedsVRAM(last.config, i, Live.m_vramSize)

C4_Witness ==
    /\ last.op = "setConfiguration" /\ last.status = kIOReturnSuccess
    /\ last.config = CfgPadded
    /\ Live.m_configuration = CfgPadded

(* The modes of config below its mode count, and the first of them that   *)
(* the loop of set-configuration turns down.                               *)
ModeIndices(config) == {i \in 0 .. (kMaxModes - 1) : i < ModeCount(config)}

TurnedDown(config, i, vramSize) == BelowMinimum(config, i) \/ ExceedsVRAM(config, i, vramSize)

FirstTurnedDown(config, vramSize) ==
    CHOOSE i \in ModeIndices(config) :
        /\ TurnedDown(config, i, vramSize)
        /\ \A j \in ModeIndices(config) : j < i => ~TurnedDown(config, j, vramSize)

(* C5, as the spec states it: set-configuration on a disconnected display  *)
(* is rejected with BadArgument when the configuration fails its           *)
(* validation, has no mode, or has a mode whose computed frame size plus   *)
(* the frame padding is above the VRAM size; the configuration and state   *)
(* are then as they were.                                                  *)
C5_BadArgumentForVRAM ==
    (/\ SetConfigurationWhileDisconnected
     /\ \/ ~ConfigIsValid(last.config)
        \/ ModeCount(last.config) = 0
        \/ \E i \in ModeIndices(last.config) : ExceedsVRAM(last.config, i, Live.m_vramSize))
    => last.status = kIOReturnBadArgument /\ SameConfigurationAndState

(* C5, amended: set-configuration on a disconnected display is rejected    *)
(* with BadArgument when the configuration fails its validation or has no  *)
(* mode; when a mode is too large for the VRAM it is rejected with         *)
(* NoMemory, unless the first mode the scan turns down is below the        *)
(* minimum size, which gives BadArgument; in each of these rejections the  *)
(* configuration and state are as they were.                               *)
C5_RejectedWhileDisconnected ==
    SetConfigurationWhileDisconnected =>
        /\ (~ConfigIsValid(last.config) \/ ModeCount(last.config) = 0) =>
              last.status = kIOReturnBadArgument
        /\ (\E i \in ModeIndices(last.config) : ExceedsVRAM(last.config, i, Live.m_vramSize)) =>
              last.status =
                  (IF BelowMinimum(last.config, FirstTurnedDown(last.config, Live.m_vramSize))
                   THEN kIOReturnBadArgument ELSE kIOReturnNoMemory)
        /\ last.status # kIOReturnSuccess => SameConfigurationAndState

C5_Witness ==
    /\ SetConfigurationWhileDisconnected
    /\ last.status = kIOReturnNoMemory
    /\ last.config = CfgPadded

(* C6: a successful set-configuration makes the configuration a copy of    *)
(* its argument, sets the state's mode and mode index to the argument's    *)
(* default mode and leaves the connected flag as it was; a                 *)
(* get-configuration that follows it returns exactly the argument.         *)
C6_Installed ==
    (last.op = "setConfiguration" /\ last.status = kIOReturnSuccess) =>
        /\ Live.m_configuration = last.config
        /\ Live.m_state.m_mode = DefaultMode(last.config)
        /\ Live.m_state.m_modeIndex = DefaultModeIndex(last.config)
        /\ IsConnected(Live.m_state) = IsConnected(last.pre.m_state)

C6_ReadBack ==
    (/\ last.op = "setConfiguration" /\ last.status = kIOReturnSuccess
     /\ last'.op = "getConfiguration" /\ last'.status = kIOReturnSuccess
     /\ last'.displayIndex = last.displayIndex)
    => last'.outConfig = last.config

C6_SetConfiguration == [](C6_Installed) /\ [][C6_ReadBack]_vars

C6_Witness ==
    /\ last.op = "getConfiguration" /\ last.status = kIOReturnSuccess
    /\ last.outConfig = CfgPadded
    /\ Live.m_state.m_mode = RawMode(2560, 1600)
    /\ Live.m_state.m_modeIndex = 1

(* C7: a successful connect() on a disconnected display leaves a state     *)
(* computed from the configuration's default mode, whatever mode was       *)
(* active, with the connected flag set and the vblank timer (when the      *)
(* display has one) enabled, raises one connect interrupt and sends one    *)
(* DisplayState notification that carries the display's index.             *)
C7_Connect ==
    (last.op = "connect" /\ last.status = kIOReturnSuccess) =>
        /\ ~IsConnected(last.pre.m_state)
        /\ StateIsValid(Live.m_state)
        /\ Live.m_state.m_mode = DefaultMode(Live.m_configuration)
        /\ Live.m_state.m_pad = Live.m_configuration.m_rowPadding
        /\ IsConnected(Live.m_state)
        /\ Live.m_vblankTimerEventSource.present => Live.m_vblankTimerIsEnabled
        /\ last.connectFires = 1
        /\ last.notifications =
              <<[code |-> kDisplayXFBNotificationDisplayState,
                 displayIndex |-> last.displayIndex]>>

(* C8: open, set-configuration of {1280x800 (default), 1920x1080},         *)
(* connect: get-state reports connected and 1280x800; after setMode(1) it  *)
(* reports 1920x1080; after disconnect it reports not connected and still  *)
(* 1920x1080.                                                              *)
C8_Scenario ==
    /\ hist.scenario = 4 =>
          IsConnected(last.outState) /\ last.outState.m_mode = RawMode(1280, 800)
    /\ hist.scenario = 6 =>
          IsConnected(last.outState) /\ last.outState.m_mode = RawMode(1920, 1080)
    /\ hist.scenario = 8 =>
          ~IsConnected(last.outState) /\ last.outState.m_mode = RawMode(1920, 1080)

C8_Witness == hist.scenario = 8 /\ last.op = "getState" /\ last.outSize

(* C9: after every sequence of set-configuration, connect, disconnect and  *)
(* setMode the state is valid (its magic is intact), so a get-state for an *)
(* existing display from an open session never fails.                      *)
C9_StateValid ==
    /\ \A d \in Displays : StateIsValid(m_framebuffers[d].m_state)
    /\ (last.op = "getState" /\ Served) => last.status = kIOReturnSuccess

(* C10: in every reachable state the state's mode index is below the mode  *)
(* count of the display's configuration.                                   *)
C10_ModeIndexInRange ==
    \A d \in Displays :
        m_framebuffers[d].m_state.m_modeIndex < ModeCount(m_framebuffers[d].m_configuration)

(* C11: in every reachable state the mode held in a display's state is the *)
(* mode its configuration stores at the state's mode index.                *)
C11_StateModeIsConfigurationMode ==
    \A d \in Displays :
        m_framebuffers[d].m_state.m_mode =
            Mode(m_framebuffers[d].m_configuration, m_framebuffers[d].m_state.m_modeIndex)

(* C12: in every reachable state the row padding of a display's state is   *)
(* that of its configuration, so the state a get-state would copy out      *)
(* right after a successful set-configuration has bytesPerRow equal to the *)
(* new row padding plus 4 times the width of the new default mode.         *)
C12_RowPaddingCurrent ==
    /\ \A d \in Displays :
          m_framebuffers[d].m_state.m_pad = m_framebuffers[d].m_configuration.m_rowPadding
    /\ (last.op = "setConfiguration" /\ last.status = kIOReturnSuccess) =>
          BytesPerRow(FramebufferGetState(Live).state) =
              AddW(ToW(last.config.m_rowPadding),
                   MulW(ToW(4), ToW(DefaultMode(last.config).m_width)))

(* C13: for a valid configuration and a mode index below its mode count    *)
(* makeState returns true and writes a valid state whose width and height  *)
(* are those of the configuration's mode at that index and whose           *)
(* bytesPerRow is the configuration's row padding plus 4 times that width  *)
(* (as unsigned values); for an index at or above the mode count it        *)
(* returns false and the state is invalid.                                 *)
C13_MakeStateRoundTrip ==
    (locals.pc = "done" /\ ConfigIsValid(locals.cfg)) =>
        IF locals.modeIndex < locals.cfg.m_modeCount
        THEN /\ locals.ok
             /\ StateIsValid(locals.state)
             /\ locals.state.m_mode.m_width = locals.cfg.m_modes[locals.modeIndex].m_width
             /\ locals.state.m_mode.m_height = locals.cfg.m_modes[locals.modeIndex].m_height
             /\ BytesPerRow(locals.state) =
                    AddW(ToW(locals.cfg.m_rowPadding),
                         MulW(ToW(4), ToW(locals.cfg.m_modes[locals.modeIndex].m_width)))
        ELSE ~locals.ok /\ ~StateIsValid(locals.state)

C13_Witness ==
    /\ locals.pc = "done"
    /\ locals.cfg = CfgPadded
    /\ locals.modeIndex = 1
    /\ locals.ok
    /\ BytesPerRow(locals.state) = ToW(10272)

---------------------------------------------------------------------------
(* Sessions and mappings.                                                  *)

PoolFull == \A i \in DOMAIN m_clients : m_clients[i] # NoClient

OpenSessions == {c \in DOMAIN isInactive : IsOpen(c)}

(* The entry of m_memoryMaps the call recorded in l addresses.             *)
MapKey(l) == <<l.displayIndex, l.mapType>>

(* The calls that take a display index.                                    *)
DisplayCalls ==
    {"getState", "getConfiguration", "setConfiguration", "connect", "disconnect", "map"}

(* The call recorded in l passes the tests its method makes on the content *)
(* of its arguments before it looks at the session.                        *)
ContentAccepted(l) ==
    /\ l.op = "setConfiguration" => ConfigIsValid(l.config)
    /\ l.op = "map" => l.mapType < kDisplayXFBMaxMapTypes

SessionStateUnchanged == UNCHANGED <<m_framebuffers, m_clients, isInactive, m_memoryMaps>>

(* C14: the open sessions never number more than kDisplayXFBMaxClients;    *)
(* with every slot taken, an open by a client that holds none fails (with  *)
(* kIOReturnError when its structure size is right), its size field is     *)
(* zeroed, and the slots and every session's mappings stay as they were.   *)
C14_Bounded == Cardinality(OpenSessions) <= kDisplayXFBMaxClients

C14_OneMore ==
    (last'.op = "open" /\ PoolFull /\ ~IsOpen(last'.client)) =>
        /\ last'.status # kIOReturnSuccess
        /\ last'.sizeOk => last'.status = kIOReturnError
        /\ ~last'.outSize
        /\ m_clients' = m_clients
        /\ m_memoryMaps' = m_memoryMaps

C14_PoolExhaustion == [](C14_Bounded) /\ [][C14_OneMore]_vars

C14_Witness ==
    /\ PoolFull
    /\ last.op = "open" /\ last.client = kDisplayXFBMaxClients + 1 /\ last.session = "closed"
    /\ last.status = kIOReturnError
    /\ uptime >= 2
    /\ IsOpen(1) /\ m_memoryMaps[1] = HeldMaps

(* C15: a close by an open session succeeds, frees its slot and empties    *)
(* every entry of its mappings, whatever the displays' connected flags; a  *)
(* close by a session that is not open returns kIOReturnNotOpen and        *)
(* changes nothing.                                                        *)
C15_Release ==
    (last'.op = "close" /\ IsOpen(last'.client)) =>
        /\ last'.status = kIOReturnSuccess
        /\ ~HandleIsOpen(m_clients', last'.client)
        /\ m_memoryMaps'[last'.client] = NoMemoryMaps

C15_Repeat ==
    (last'.op = "close" /\ ~IsOpen(last'.client)) =>
        last'.status = kIOReturnNotOpen /\ SessionStateUnchanged

C15_CloseSession == [][C15_Release /\ C15_Repeat]_vars

C15_Witness ==
    /\ last.op = "close" /\ last.status = kIOReturnSuccess
    /\ last.held = 2
    /\ IsConnected(Live.m_state)
    /\ m_memoryMaps[last.client] = NoMemoryMaps
    /\ ~IsOpen(last.client)

(* C16: a close, and the termination of a client, leave every framebuffer  *)
(* (connected flag, configuration, state, vblank timer) as it was.         *)
C16_CloseKeepsDisplays ==
    [][last'.op \in {"close", "clientClose"} => m_framebuffers' = m_framebuffers]_vars

C16_Witness ==
    /\ last.op = "clientClose" /\ last.session = "open"
    /\ IsConnected(Live.m_state)
    /\ Live.m_vblankTimerIsEnabled
    /\ ~IsOpen(last.client)

(* C17: a map call that finds no mapping for its display and type creates  *)
(* one and stores it; a map call that finds one succeeds, creates nothing, *)
(* leaves the entry as it is and returns its address and length; connect,  *)
(* disconnect, set-configuration and setDisplayMode leave every mapping as *)
(* it was.                                                                 *)
C17_First ==
    (/\ last'.op = "map" /\ last'.status = kIOReturnSuccess
     /\ m_memoryMaps[last'.client][MapKey(last')] = NoMap) =>
        /\ last'.created
        /\ m_memoryMaps'[last'.client][MapKey(last')] # NoMap

C17_Later ==
    (/\ last'.op = "map" /\ last'.sizeOk /\ last'.mapType < kDisplayXFBMaxMapTypes
     /\ last'.displayIndex < kDisplayXFBMaxDisplays
     /\ m_memoryMaps[last'.client][MapKey(last')] # NoMap) =>
        /\ last'.status = kIOReturnSuccess
        /\ ~last'.created
        /\ m_memoryMaps'[last'.client][MapKey(last')] = m_memoryMaps[last'.client][MapKey(last')]
        /\ last'.outMap = [address |-> m_memoryMaps[last'.client][MapKey(last')].address,
                           length |-> m_memoryMaps[last'.client][MapKey(last')].length]

C17_DisplayCalls ==
    last'.op \in {"connect", "disconnect", "setConfiguration", "setDisplayMode"} =>
        m_memoryMaps' = m_memoryMaps

C17_MapOnce == [][C17_First /\ C17_Later /\ C17_DisplayCalls]_vars

C17_Witness ==
    /\ last.op = "map" /\ last.status = kIOReturnSuccess
    /\ ~last.created /\ last.held >= 1
    /\ last.outMap.address = m_memoryMaps[last.client][MapKey(last)].address
    /\ last.outMap.address >= 1
    /\ hist.flagChanges >= 2

(* C18: a map call that passes the tests of its arguments and its session, *)
(* for a display whose enableController failed to allocate, returns        *)
(* kIOReturnNoMemory with its size field zeroed; the session holds no      *)
(* mapping of that display and the display has no memory afterwards.       *)
C18_MapWithoutMemory ==
    (/\ last.op = "map" /\ Served /\ last.mapType < kDisplayXFBMaxMapTypes
     /\ ~(last.pre.m_displayMemory.allocated /\ last.pre.m_cursorMemory.allocated)) =>
        /\ last.status = kIOReturnNoMemory
        /\ ~last.outSize
        /\ last.outMap = NoMap
        /\ \A t \in 0 .. (kDisplayXFBMaxMapTypes - 1) :
              m_memoryMaps[last.client][<<last.displayIndex, t>>] = NoMap
        /\ ~Live.m_displayMemory.allocated /\ ~Live.m_cursorMemory.allocated

C18_Witness ==
    /\ last.op = "map" /\ Served /\ last.mapType = kDisplayXFBMapTypeCursor
    /\ ~last.pre.m_displayMemory.allocated
    /\ last.status = kIOReturnNoMemory

(* C19, as the spec states it: a call with a display index and a structure *)
(* of the right size returns kIOReturnNotOpen from a session that is not   *)
(* open and kIOReturnNotFound from an open session for a display index     *)
(* that resolves to no display, raises no notification and changes no      *)
(* display, session or mapping.                                            *)
NotOpenCall(l) == l.op \in DisplayCalls /\ l.sizeOk /\ l.session = "closed"

NotFoundCall(l) == l.op \in DisplayCalls /\ l.sizeOk /\ l.session = "open" /\ ~l.pre.nub

C19_AnyContent ==
    /\ [](/\ NotOpenCall(last) => last.status = kIOReturnNotOpen /\ Silent
          /\ NotFoundCall(last) => last.status = kIOReturnNotFound /\ Silent)
    /\ [][(NotOpenCall(last') \/ NotFoundCall(last')) => SessionStateUnchanged]_vars

(* C19: the same for the calls whose arguments pass the tests the method   *)
(* makes on their content (a configuration that is valid, a map type in    *)
(* range), which come before the tests of the session.                     *)
C19_Outcome ==
    /\ (NotOpenCall(last) /\ ContentAccepted(last)) =>
          last.status = kIOReturnNotOpen /\ Silent
    /\ (NotFoundCall(last) /\ ContentAccepted(last)) =>
          last.status = kIOReturnNotFound /\ Silent

C19_NoEffect ==
    ((NotOpenCall(last') \/ NotFoundCall(last')) /\ ContentAccepted(last')) =>
        SessionStateUnchanged

C19_PreconditionFailures == [](C19_Outcome) /\ [][C19_NoEffect]_vars

C19_Witness ==
    /\ last.op = "connect" /\ last.session = "closed" /\ last.pre.nub
    /\ last.status = kIOReturnNotOpen
    /\ IsConnected(Live.m_state)

(* C20: an open, get-state, get-configuration or map call that does not    *)
(* return kIOReturnSuccess leaves its size field at zero.                  *)
C20_SizeZeroed ==
    (last.op \in {"open", "getState", "getConfiguration", "map"}
        /\ last.status # kIOReturnSuccess) => ~last.outSize

C20_Witness ==
    /\ last.op = "getState" /\ Served
    /\ last.status = kIOReturnOffline
    /\ ~last.outSize

---------------------------------------------------------------------------
(* The calls of the dispatch table (selectors 0 to 7).                     *)
ProtocolCalls ==
    {"open", "close", "getState", "getConfiguration", "setConfiguration",
     "connect", "disconnect", "map"}

(* C21: every call of the dispatch table returns one of kIOReturnSuccess,  *)
(* BadArgument, NotAttached, NotOpen, NotFound, Busy, NoMemory,            *)
(* Unsupported, NotPermitted, UnsupportedMode and Error.                   *)
C21_ClosedOutcomes ==
    last.op \in ProtocolCalls =>
        last.status \in {kIOReturnSuccess, kIOReturnBadArgument, kIOReturnNotAttached,
                         kIOReturnNotOpen, kIOReturnNotFound, kIOReturnBusy,
                         kIOReturnNoMemory, kIOReturnUnsupported, kIOReturnNotPermitted,
                         kIOReturnUnsupportedMode, kIOReturnError}

---------------------------------------------------------------------------
(* The first update() after a start(P), P > 0, with the clock advanced by  *)
(* at least one whole period in between and never set back.                *)
PeriodAbs == NanosecondsToAbsolutetime(locals.period * 1000)

Advance == locals.at - locals.startedAt

FirstPollAfterPeriods ==
    /\ locals.pc = "timing" /\ locals.call = "update"
    /\ ~locals.polled /\ ~locals.back
    /\ locals.period > 0
    /\ Advance \div PeriodAbs >= 1

(* C22, as the spec states it: that update() reports as many ticks as      *)
(* whole periods have gone by and a time to the next tick in [0, P).       *)
C22_HalfOpen ==
    FirstPollAfterPeriods =>
        /\ locals.ticks = Advance \div PeriodAbs
        /\ locals.timeToNextTick >= 0 /\ locals.timeToNextTick < locals.period

(* C22: that update() reports as many ticks as whole periods have gone by  *)
(* and a time to the next tick in [0, P], which is P exactly when the      *)
(* clock stands on a tick.                                                 *)
C22_TicksElapsed ==
    FirstPollAfterPeriods =>
        /\ locals.ticks = Advance \div PeriodAbs
        /\ locals.timeToNextTick >= 0 /\ locals.timeToNextTick <= locals.period
        /\ (locals.timeToNextTick = locals.period) <=> (Advance % PeriodAbs = 0)

C22_Witness ==
    /\ FirstPollAfterPeriods
    /\ locals.ticks = 3
    /\ Advance % PeriodAbs > 0
    /\ locals.timeToNextTick < locals.period

(* C23: update() with a zero period at or past the tick time reports no    *)
(* tick and sets the tick time to now; update() that finds the tick time   *)
(* more than a period ahead reports no tick and sets the tick time one     *)
(* period after now.                                                       *)
C23_Guards ==
    (locals.pc = "timing" /\ locals.call = "update") =>
        /\ (locals.pre.m_period = 0 /\ locals.at >= locals.pre.m_nextTick) =>
              locals.ticks = 0 /\ locals.timing.m_nextTick = locals.at
        /\ (locals.at < locals.pre.m_nextTick
               /\ locals.pre.m_nextTick - locals.at > locals.pre.m_period) =>
              /\ locals.ticks = 0
              /\ locals.timing.m_nextTick = locals.at + locals.pre.m_period

---------------------------------------------------------------------------
(* The display of the vblank timer and the timeout its timer source holds. *)
Display0 == m_framebuffers[0]

Armed == Display0.m_vblankTimerEventSource

Min(a, b) == IF a < b THEN a ELSE b

(* C24: the number of fire() calls in one run of the handler is the        *)
(* smaller of the ticks update() reported and 3.                           *)
C24_FiresPerPoll == locals.call = "poll" => locals.fires = Min(locals.ticks, 3)

(* A step that completes a run of the handler.                             *)
PollStep == locals.pc = "enabled" /\ locals'.pc = "idle"

(* C25, as the spec states it: that the handler arms the timeout for the   *)
(* time to the next tick that update() returned, within 1 ms to 1 s.       *)
C25_Exact ==
    [][PollStep =>
        /\ Armed'.armed
        /\ Armed'.timeoutUS = locals'.timeToNextTick
        /\ Armed'.timeoutUS >= 1000 /\ Armed'.timeoutUS <= 1000000]_vars

(* C25: the handler arms the timeout for the time to the next tick that    *)
(* update() returned when that is at least 100 us, and for the vblank      *)
(* period, which is within 1 ms to 1 s, when it is less; the timeout is    *)
(* never below 100 us nor above the period.                                *)
C25_Rearm ==
    [][PollStep =>
        /\ Armed'.armed
        /\ Armed'.timeoutUS = IF locals'.timeToNextTick < 100
                              THEN Display0.m_vblankPeriodUS
                              ELSE locals'.timeToNextTick
        /\ Display0.m_vblankPeriodUS >= 1000 /\ Display0.m_vblankPeriodUS <= 1000000
        /\ Armed'.timeoutUS >= 100 /\ Armed'.timeoutUS <= Display0.m_vblankPeriodUS
        /\ Armed'.deadline = uptime + (Armed'.timeoutUS * 1000)]_vars

C25_Witness ==
    /\ locals.pc = "idle" /\ locals.call = "poll"
    /\ locals.timeToNextTick < 100
    /\ Armed.armed /\ Armed.timeoutUS = Display0.m_vblankPeriodUS
    /\ Armed.deadline = uptime + (Display0.m_vblankPeriodUS * 1000)

(* C26: on a display with a timer source the vblank timer is enabled       *)
(* exactly when the display is connected: at start and after every connect *)
(* and disconnect call, whatever the handler is doing.                     *)
C26_TimerFollowsConnection ==
    \A d \in Displays :
        m_framebuffers[d].m_vblankTimerEventSource.present =>
            m_framebuffers[d].m_vblankTimerIsEnabled = IsConnected(m_framebuffers[d].m_state)

C26_Witness ==
    /\ last.op = "disconnect" /\ last.status = kIOReturnSuccess
    /\ IsConnected(last.pre.m_state) /\ last.pre.m_vblankTimerIsEnabled
    /\ Display0.m_vblankTimerEventSource.present
    /\ ~Display0.m_vblankTimerIsEnabled
    /\ locals.call = "poll"

(* C27: while a display is disconnected no timeout is armed for it, and a  *)
(* run of the handler that completes while it is disconnected fires no     *)
(* vblank interrupt.                                                       *)
C27_DisconnectCancels ==
    /\ ~IsConnected(Display0.m_state) => ~Armed.armed
    /\ (locals.call = "poll" /\ ~locals.connected) => locals.fires = 0

---------------------------------------------------------------------------
(* C28: setDisplayMode for mode index i (mode ID i + 1) returns            *)
(* kIOReturnSuccess exactly when the depth is 0 and i is below the mode    *)
(* count of the display's configuration; it then leaves the state with     *)
(* mode i of the configuration and mode index i, every other field of the  *)
(* state (the connected flag among them), the configuration and the timer  *)
(* as they were, and sends one display-state notification for the          *)
(* display. Otherwise it returns kIOReturnUnsupported, changes nothing and *)
(* sends nothing.                                                          *)
C28_SetDisplayMode ==
    last.op = "setDisplayMode" =>
        IF /\ last.depth = 0 /\ last.displayMode >= 1
           /\ last.displayMode - 1 < last.pre.m_configuration.m_modeCount
        THEN /\ last.status = kIOReturnSuccess
             /\ Live.m_state =
                   [last.pre.m_state EXCEPT
                       !.m_mode = last.pre.m_configuration.m_modes[last.displayMode - 1],
                       !.m_modeIndex = last.displayMode - 1]
             /\ Live = [last.pre EXCEPT !.m_state = Live.m_state]
             /\ last.notifications = <<[code |-> kDisplayXFBNotificationDisplayState,
                                        displayIndex |-> last.displayIndex]>>
        ELSE /\ last.status = kIOReturnUnsupported
             /\ Live = last.pre
             /\ last.notifications = <<>>

C28_Witness ==
    /\ last.op = "setDisplayMode" /\ last.displayMode = 2 /\ last.status = kIOReturnSuccess
    /\ IsConnected(Live.m_state)
    /\ last.pre.m_state.m_modeIndex = 0
    /\ Live.m_state.m_modeIndex = 1
    /\ Live.m_state.m_mode # last.pre.m_state.m_mode

---------------------------------------------------------------------------
(* C29: a setCursorState call leaves m_sequenceState one above what it     *)
(* was and a successful setCursorImage call leaves m_sequencePixel one     *)
(* above what it was (no counter is anywhere near 2^32 here); no call      *)
(* lowers either counter.                                                  *)
C29_SequenceCounters ==
    /\ last.op = "setCursorState" =>
          Live.m_cursor.m_sequenceState = last.pre.m_cursor.m_sequenceState + 1
    /\ (last.op = "setCursorImage" /\ last.status = kIOReturnSuccess) =>
          Live.m_cursor.m_sequencePixel = last.pre.m_cursor.m_sequencePixel + 1
    /\ (last.pre.nub /\ last.pre.m_cursorMemory.allocated) =>
          /\ Live.m_cursor.m_sequenceState >= last.pre.m_cursor.m_sequenceState
          /\ Live.m_cursor.m_sequencePixel >= last.pre.m_cursor.m_sequencePixel

(* C30: setCursorImage with an image that cannot be converted leaves       *)
(* m_isValid 0 and every other field of the cursor and the display as it   *)
(* was, returns kIOReturnUnsupported and sends nothing; with one that can, *)
(* it leaves m_isValid 1, the hot spot and size the conversion returned,   *)
(* the position, visibility and display as they were, returns              *)
(* kIOReturnSuccess and sends one cursor-image notification for the        *)
(* display.                                                                *)
C30_SetCursorImage ==
    last.op = "setCursorImage" =>
        IF ~last.info.ok
        THEN /\ last.status = kIOReturnUnsupported
             /\ last.notifications = <<>>
             /\ Live = [last.pre EXCEPT !.m_cursor.m_isValid = 0]
        ELSE /\ last.status = kIOReturnSuccess
             /\ last.notifications = <<[code |-> kDisplayXFBNotificationCursorImage,
                                        displayIndex |-> last.displayIndex]>>
             /\ Live = [last.pre EXCEPT
                           !.m_cursor.m_isValid = 1,
                           !.m_cursor.m_hotspotX = last.info.cursorHotSpotX,
                           !.m_cursor.m_hotspotY = last.info.cursorHotSpotY,
                           !.m_cursor.m_width = last.info.cursorWidth,
                           !.m_cursor.m_height = last.info.cursorHeight]

C30_Witness ==
    /\ last.op = "setCursorImage" /\ ~last.info.ok
    /\ last.pre.m_cursor.m_isValid = 1 /\ last.pre.m_cursor.m_width = kCursorMaxWidth
    /\ Live.m_cursor.m_isValid = 0
    /\ Live.m_cursor.m_width = kCursorMaxWidth
    /\ IsConnected(Live.m_state)

---------------------------------------------------------------------------
(* The bounds of a mode: the width a multiple of kDisplayXFBWidthQuantise  *)
(* within the width limits, the height within the height limits.           *)
WidthInBounds(w) ==
    /\ w % kDisplayXFBWidthQuantise = 0
    /\ w >= kDisplayXFBMinWidth /\ w <= kDisplayXFBMaxWidth

HeightInBounds(h) == h >= kDisplayXFBMinHeight /\ h <= kDisplayXFBMaxHeight

Clamp(v, lo, hi) == IF v < lo THEN lo ELSE IF v > hi THEN hi ELSE v

(* C31: after setWidth(w) the width is w rounded down to a multiple of 8   *)
(* and then clamped to [320, 8192]; after setHeight(h) the height is h     *)
(* clamped to [200, 8192]; initialise(w, h) does both; the mode is within  *)
(* its bounds after each; setWidth and setHeight return true exactly when  *)
(* the stored value is the requested one, initialise when both are.        *)
C31_Quantised ==
    (locals.pc = "mode" /\ locals.call # "construct") =>
        /\ WidthInBounds(locals.mode.m_width) /\ HeightInBounds(locals.mode.m_height)
        /\ locals.call \in {"setWidth", "initialise"} =>
              locals.mode.m_width =
                  Clamp((locals.w \div 8) * 8, kDisplayXFBMinWidth, kDisplayXFBMaxWidth)
        /\ locals.call \in {"setHeight", "initialise"} =>
              locals.mode.m_height =
                  Clamp(locals.h, kDisplayXFBMinHeight, kDisplayXFBMaxHeight)
        /\ locals.call = "setWidth" => (locals.ret <=> locals.mode.m_width = locals.w)
        /\ locals.call = "setHeight" => (locals.ret <=> locals.mode.m_height = locals.h)
        /\ locals.call = "initialise" =>
              (locals.ret <=> (locals.mode.m_width = locals.w
                                  /\ locals.mode.m_height = locals.h))

C31_Witness ==
    /\ locals.pc = "mode" /\ locals.call = "initialise"
    /\ locals.w = 1283 /\ locals.h = 8193
    /\ locals.mode = [m_width |-> 1280, m_height |-> 8192]
    /\ ~locals.ret

---------------------------------------------------------------------------
(* C32: get-state never returns a snapshot taken in the middle of a        *)
(* mutation: no state returned while setDisplayMode is in progress carries *)
(* the mode index the host has just stored together with the mode of the   *)
(* index that was current before the call.                                 *)
C32_NoTornSnapshot ==
    ~ /\ last.op = "getState" /\ last.status = kIOReturnSuccess
      /\ locals.pc = "setMode"
      /\ last.outState.m_modeIndex = locals.displayMode - 1
      /\ last.outState.m_modeIndex # locals.before.m_state.m_modeIndex
      /\ last.outState.m_mode = locals.before.m_state.m_mode
      /\ last.outState.m_mode # Mode(Live.m_configuration, locals.displayMode - 1)

---------------------------------------------------------------------------
(* C33: a successful map call with readOnly = true hands back a mapping    *)
(* that is read-only, whatever map calls the session made before.          *)
C33_ReadOnlyHonoured ==
    (last.op = "map" /\ last.readOnly /\ last.status = kIOReturnSuccess) =>
        /\ m_memoryMaps[last.client][<<last.displayIndex, last.mapType>>].address
              = last.outMap.address
        /\ m_memoryMaps[last.client][<<last.displayIndex, last.mapType>>].readOnly

---------------------------------------------------------------------------
(* (pad + 4 * w) * h + kFramePadding <= vramSize in exact arithmetic,      *)
(* written so that no intermediate value exceeds twice the VRAM size.      *)
ExactFits(pad, w, h, vramSize) ==
    \/ h = 0
    \/ /\ pad <= vramSize
       /\ w <= vramSize \div BytesPerPixel
       /\ pad + BytesPerPixel * w <= (vramSize - kFramePadding) \div h

(* C34: the frame of every mode of every display's configuration, computed *)
(* without the 32-bit wrap, (rowPadding + 4 * width) * height + 1024, is   *)
(* at most the display's VRAM size.                                        *)
C34_ExactFrameFitsVRAM ==
    \A d \in Displays : \A i \in ModeIndices(m_framebuffers[d].m_configuration) :
        ExactFits(m_framebuffers[d].m_configuration.m_rowPadding,
                  Mode(m_framebuffers[d].m_configuration, i).m_width,
                  Mode(m_framebuffers[d].m_configuration, i).m_height,
                  m_framebuffers[d].m_vramSize)

---------------------------------------------------------------------------
(* C35: every mode of every display's configuration is within the bounds   *)
(* of a mode (the width a multiple of 8 within [320, 8192], the height     *)
(* within [200, 8192]), and a set-configuration that succeeded passed no   *)
(* mode outside them.                                                      *)
C35_ModesInBounds ==
    /\ \A d \in Displays : \A i \in ModeIndices(m_framebuffers[d].m_configuration) :
          /\ WidthInBounds(Mode(m_framebuffers[d].m_configuration, i).m_width)
          /\ HeightInBounds(Mode(m_framebuffers[d].m_configuration, i).m_height)
    /\ (last.op = "setConfiguration" /\ last.status = kIOReturnSuccess) =>
          \A i \in ModeIndices(last.config) :
              /\ WidthInBounds(Mode(last.config, i).m_width)
              /\ HeightInBounds(Mode(last.config, i).m_height)

---------------------------------------------------------------------------
(* C36: a client holds at most one entry of m_clients. An open by a client *)
(* whose session is open fails (kIOReturnError when its structure size is  *)
(* right) and leaves the table as it was; the occupied entries hold        *)
(* pairwise distinct clients; an open by a client without a session, with  *)
(* the right size and an entry free (one freed by a close included),       *)
(* succeeds and takes one free entry.                                      *)
C36_Distinct ==
    \A i, j \in DOMAIN m_clients :
        (i # j /\ m_clients[i] # NoClient) => m_clients[i] # m_clients[j]

C36_OpenTwice ==
    (last'.op = "open" /\ IsOpen(last'.client)) =>
        /\ last'.status # kIOReturnSuccess
        /\ last'.sizeOk => last'.status = kIOReturnError
        /\ m_clients' = m_clients

C36_OpenFree ==
    (last'.op = "open" /\ ~IsOpen(last'.client) /\ last'.sizeOk /\ ~PoolFull) =>
        /\ last'.status = kIOReturnSuccess
        /\ \E i \in DOMAIN m_clients :
              /\ m_clients[i] = NoClient
              /\ m_clients' = [m_clients EXCEPT ![i] = last'.client]

C36_OneSlotPerClient == [](C36_Distinct) /\ [][C36_OpenTwice /\ C36_OpenFree]_vars

(* Every entry taken, client 3 closed, client 9 opened into the freed      *)
(* entry and then opened again.                                            *)
C36_Witness ==
    /\ last.op = "open" /\ last.client = kDisplayXFBMaxClients + 1 /\ last.session = "open"
    /\ last.sizeOk /\ last.status = kIOReturnError
    /\ m_clients[2] = kDisplayXFBMaxClients + 1
    /\ PoolFull

---------------------------------------------------------------------------
(* C37 on a driver whose framebuffers all started: the configuration of    *)
(* every display is valid (isValid()) and has at least one mode in every   *)
(* reachable state, and a connect that reaches a disconnected display does *)
(* not return kIOReturnUnsupportedMode: it succeeds.                       *)
C37_ConfigurationValid ==
    /\ \A d \in Displays :
          /\ ConfigIsValid(m_framebuffers[d].m_configuration)
          /\ m_framebuffers[d].m_configuration.m_modeCount >= 1
    /\ (last.op = "connect" /\ Served /\ ~IsConnected(last.pre.m_state)) =>
          last.status = kIOReturnSuccess

(* The first connect of a display whose configuration a client has set.    *)
C37_Witness ==
    /\ last.op = "connect" /\ Served /\ ~IsConnected(last.pre.m_state)
    /\ last.status = kIOReturnSuccess
    /\ Live.m_configuration = CfgPadded
    /\ hist.flagChanges = 1

---------------------------------------------------------------------------
(* The calls that are addressed to one display: the client's calls that    *)
(* take a display index and the host's calls on a framebuffer.             *)
AddressedCalls ==
    DisplayCalls \cup {"setDisplayMode", "setCursorImage", "setCursorState"}

(* C38: a call addressed to display i leaves the framebuffer of every      *)
(* other display as it was (configuration, state, cursor, vblank timer and *)
(* timing, interrupt handlers, memory) and every notification it raises    *)
(* carries the index i.                                                    *)
C38_Step ==
    last'.op \in AddressedCalls =>
        /\ \A j \in DOMAIN m_framebuffers :
              j # last'.displayIndex => m_framebuffers'[j] = m_framebuffers[j]
        /\ \A n \in DOMAIN last'.notifications :
              last'.notifications[n].displayIndex = last'.displayIndex

---------------------------------------------------------------------------
(* C39: a call of an open session finds its display (does not return       *)
(* kIOReturnNotFound) exactly when the index is below the display count    *)
(* that open reported, and every index that is found is that of a          *)
(* framebuffer that was initialised, attached and started.                 *)
C39_Resolves ==
    (locals.pc = "driver" /\ last.op \in DisplayCalls /\ last.session = "open" /\ last.sizeOk) =>
        /\ (last.status # kIOReturnNotFound) <=> (last.displayIndex < Cardinality(TwoDisplays))
        /\ (last.status # kIOReturnNotFound) => locals.nubs[last.displayIndex] = "started"

(* C37: whatever the outcome of the framebuffers' start(), a connect that  *)
(* reaches a disconnected display does not return                          *)
(* kIOReturnUnsupportedMode.                                               *)
C37_ConnectSupported ==
    (last.op = "connect" /\ Served /\ ~IsConnected(last.pre.m_state)) =>
        last.status # kIOReturnUnsupportedMode

---------------------------------------------------------------------------
(* A run of the handler that fires the vblank interrupt and reaches the    *)
(* registered callback.                                                    *)
VblankDelivered == PollStep /\ locals'.delivered > 0

(* C40: in every behaviour in which display 0 is connected from some point *)
(* on, with the vblank handler registered and enabled and every armed      *)
(* timeout expiring, the vblank interrupt is delivered infinitely often.   *)
C40_VblankLive ==
    (<>[](IsConnected(m_framebuffers[0].m_state)
             /\ HandlerFire(m_framebuffers[0].m_vblankInterruptHandler) = 1))
        => []<><<VblankDelivered>>_vars

(* C40, the part that holds at every moment: while display 0 is connected  *)
(* and no disconnect is in progress, a timeout is armed or the handler is  *)
(* running.                                                                *)
C40_TimeoutPending ==
    (IsConnected(m_framebuffers[0].m_state) /\ locals.thread = "none") =>
        (m_framebuffers[0].m_vblankTimerEventSource.armed \/ locals.pc = "enabled")

===========================================================================
